---- MODULE Spec2Model ----
(***************************************************************************)
(* Model of the Neo4j MCP server's template execution and schema           *)
(* validation subsystem (tools/template_executor.py,                       *)
(* validation/schema_validator.py, resources/handlers.py, server.py).      *)
(*                                                                         *)
(* Query text is a sequence of tokens (words, blanks, newlines and         *)
(* parentheses, each a string).  The Python substring operations `in`,     *)
(* str.find, str.replace and slicing are modelled on token sequences, so a *)
(* keyword is found where it stands as a token of the text.                *)
(***************************************************************************)
EXTENDS Integers, Sequences, FiniteSets, TLC

(***************************************************************************)
(* Bounds of the model.                                                    *)
(***************************************************************************)
\* how many customizations the text specification applies in a row
MaxApply == 2
\* the limit values callers supply are 0..MaxLimitValue
MaxLimitValue == 2
\* how many calls the concurrent specification runs side by side
MaxCallers == 2
\* how many store_facts calls the knowledge-graph specification runs
MaxStores == 2

(***************************************************************************)
(* Python string operations, on token sequences.                           *)
(***************************************************************************)
\* s[i:i+len(p)] == p   (1-based i)
MatchAt(s, p, i) ==
    /\ i >= 1
    /\ i + Len(p) - 1 <= Len(s)
    /\ \A k \in 1..Len(p) : s[i + k - 1] = p[k]

\* str.find: index of the first occurrence (1-based), 0 when there is none
\* (Python's -1).
Find(s, p) ==
    IF \E i \in 1..Len(s) : MatchAt(s, p, i)
    THEN CHOOSE i \in 1..Len(s) :
            /\ MatchAt(s, p, i)
            /\ \A j \in 1..(i - 1) : ~MatchAt(s, p, j)
    ELSE 0

\* `p in s`
Contains(s, p) == Find(s, p) # 0

\* str.replace(p, r): every non-overlapping occurrence, left to right
RECURSIVE Replace(_, _, _)
Replace(s, p, r) ==
    LET i == Find(s, p) IN
    IF i = 0 THEN s
    ELSE SubSeq(s, 1, i - 1) \o r \o Replace(SubSeq(s, i + Len(p), Len(s)), p, r)

\* s.startswith(p)
StartsWith(s, p) == MatchAt(s, p, 1)

\* number of occurrences of p in s (str.count)
RECURSIVE Count(_, _)
Count(s, p) ==
    LET i == Find(s, p) IN
    IF i = 0 THEN 0 ELSE 1 + Count(SubSeq(s, i + Len(p), Len(s)), p)

\* the keywords the executor searches for
KW_WHERE == <<"WHERE">>
KW_ORDER_BY == <<"ORDER", " ", "BY">>
KW_LIMIT == <<"LIMIT">>
KW_RPAREN == <<")">>

(***************************************************************************)
(* TemplateExecutor.execute_template: the customizations.                  *)
(***************************************************************************)
\* "additional_where" in customizations
ApplyAdditionalWhere(query, where_clause) ==
    IF Contains(query, KW_WHERE)
    THEN Replace(query, KW_WHERE, <<"WHERE", " ">> \o where_clause \o <<" ", "AND">>)
    ELSE LET match_end == Find(query, KW_RPAREN) IN
         IF match_end # 0
         THEN SubSeq(query, 1, match_end)
                \o <<"\n", "WHERE", " ">> \o where_clause
                \o SubSeq(query, match_end + 1, Len(query))
         ELSE query

\* "order_by" in customizations: the text is cut at the first ORDER BY
ApplyOrderBy(query, order_by) ==
    IF Contains(query, KW_ORDER_BY)
    THEN SubSeq(query, 1, Find(query, KW_ORDER_BY) - 1)
            \o <<"ORDER", " ", "BY", " ">> \o order_by
    ELSE IF Contains(query, KW_LIMIT)
         THEN Replace(query, KW_LIMIT,
                      <<"ORDER", " ", "BY", " ">> \o order_by \o <<"\n", "LIMIT">>)
         ELSE query \o <<"\n", "ORDER", " ", "BY", " ">> \o order_by

\* f"LIMIT {limit}"
LimitClause(limit) == <<"LIMIT", " ", ToString(limit)>>

\* a limit customization that appends without looking for an existing LIMIT
ApplyLimitAppendOnly(query, limit) == query \o <<"\n">> \o LimitClause(limit)

\* "limit" in customizations
ApplyLimit(query, limit) ==
    IF Contains(query, KW_LIMIT)
    THEN SubSeq(query, 1, Find(query, KW_LIMIT) - 1) \o LimitClause(limit)
    ELSE query \o <<"\n">> \o LimitClause(limit)

\* The keys a customizations mapping may hold.  A mapping is modelled as the
\* set of keys present (keys) and the value of each key; the value of a key
\* that is absent is never read.
CustomKeys == {"additional_where", "order_by", "limit"}

\* `if request.customizations:` -- None and {} are both falsy
Customize(query, customizations) ==
    IF customizations.keys = {} THEN query
    ELSE
      LET q1 == IF "additional_where" \in customizations.keys
                THEN ApplyAdditionalWhere(query, customizations.additional_where)
                ELSE query
          q2 == IF "order_by" \in customizations.keys
                THEN ApplyOrderBy(q1, customizations.order_by)
                ELSE q1
          q3 == IF "limit" \in customizations.keys
                THEN ApplyLimit(q2, customizations.limit)
                ELSE q2
      IN q3

(***************************************************************************)
(* The template registry, resources/templates.py QUERY_TEMPLATES.  A query *)
(* keeps its first parenthesised group and every WHERE, ORDER BY and LIMIT *)
(* of the source text, in the source's order; the text between them is     *)
(* abbreviated to one token.  Every template of the source declares empty  *)
(* required_labels and required_relationships.                             *)
(***************************************************************************)
Q_entity_search ==
    <<"\n", "MATCH", " ", "(", "n:$label", ")", "\n",
      "WHERE", " ", "n[$property] $operator $value", "\n",
      "OPTIONAL MATCH", "\n",
      "WHERE", " ", "type(r) in $relationship_types", "\n",
      "RETURN", " ", "entity, connections", "\n">>

Q_graph_analytics ==
    <<"\n", "MATCH", " ", "(", "n:$label", ")", "\n",
      "WITH", " ", "[r IN collect(r) ", "WHERE", " startNode(r) = n]", ",",
                   "[r IN collect(r) ", "WHERE", " endNode(r) = n]", "\n",
      "RETURN", " ", "analysis", "\n",
      "ORDER", " ", "BY", " ", "total_relationships DESC", "\n",
      "LIMIT", " ", "$limit", "\n">>

Q_temporal_pattern ==
    <<"\n", "MATCH", " ", "(", "n:$label", ")", "-[r:$relationship_type]->()", "\n",
      "WHERE", " ", "exists(r.$timestamp_property)", "\n",
      "RETURN", " ", "year, month, count, statistics", "\n",
      "ORDER", " ", "BY", " ", "year, month", "\n">>

Q_recommendation ==
    <<"\n", "MATCH", " ", "(", "source:$label {$match_prop: $match_value}", ")", "\n",
      "WHERE", " ", "recommended <> source", "\n",
      "RETURN", " ", "recommendation", "\n",
      "ORDER", " ", "BY", " ", "shared_count DESC", "\n",
      "LIMIT", " ", "$limit", "\n">>

Q_graph_metrics ==
    <<"\n", "CALL gds.graph.create.cypher", "(", "'analysis-graph', ...", ")", "\n",
      "MATCH (n) ", "WHERE", " ", "id(n) = nodeId", "\n",
      "RETURN", " ", "node", "\n",
      "ORDER", " ", "BY", " ", "score DESC", "\n",
      "LIMIT", " ", "$limit", "\n">>

TemplateNames ==
    {"entity_search", "graph_analytics", "temporal_pattern", "recommendation",
     "graph_metrics"}

QUERY_TEMPLATES ==
    [name \in TemplateNames |->
       [name |-> name,
        query |-> CASE name = "entity_search" -> Q_entity_search
                    [] name = "graph_analytics" -> Q_graph_analytics
                    [] name = "temporal_pattern" -> Q_temporal_pattern
                    [] name = "recommendation" -> Q_recommendation
                    [] name = "graph_metrics" -> Q_graph_metrics,
        required_labels |-> {},
        required_relationships |-> {}]]

(***************************************************************************)
(* validation_rules of the registry.  A rule text is one of the two forms  *)
(* validate_template recognises, or another text it does not enforce.      *)
(***************************************************************************)
MaxLimitGraphAnalytics == 100
MaxLimitRecommendation == 50
MaxLimitGraphMetrics == 100

AllowedOperators == {"=", ">", "<", ">=", "<=", "CONTAINS", "STARTS WITH", "ENDS WITH"}

OneOf(param, allowed) == [param |-> param, form |-> "one_of", allowed |-> allowed, max |-> 0]
PositiveMax(param, max) == [param |-> param, form |-> "positive_max", allowed |-> {}, max |-> max]
OtherRule(param) == [param |-> param, form |-> "other", allowed |-> {}, max |-> 0]

\* template.validation_rules.items(), in declaration order
ValidationRules(name) ==
    CASE name = "entity_search" ->
            <<OneOf("operator", AllowedOperators), OtherRule("relationship_types")>>
      [] name = "graph_analytics" -> <<PositiveMax("limit", MaxLimitGraphAnalytics)>>
      [] name = "temporal_pattern" -> <<OtherRule("timestamp_property")>>
      [] name = "recommendation" -> <<PositiveMax("limit", MaxLimitRecommendation)>>
      [] name = "graph_metrics" -> <<PositiveMax("limit", MaxLimitGraphMetrics)>>

\* a parameter value: an integer, or a string that int() rejects
IntValue(n) == [isInt |-> TRUE, int |-> n, str |-> ToString(n)]
StrValue(t) == [isInt |-> FALSE, int |-> 0, str |-> t]

(***************************************************************************)
(* Inputs of the text specification: the registry's queries and short      *)
(* texts with and without the searched keywords.                           *)
(***************************************************************************)
Q_order_limit ==
    <<"MATCH", " ", "(", "n", ")", " ", "RETURN", " ", "n", " ",
      "ORDER", " ", "BY", " ", "n.name", " ", "LIMIT", " ", "10">>
Q_limit_only ==
    <<"MATCH", " ", "(", "n", ")", " ", "RETURN", " ", "n", " ", "LIMIT", " ", "10">>
Q_plain == <<"MATCH", " ", "(", "n", ")", " ", "RETURN", " ", "n">>
Q_no_paren == <<"RETURN", " ", "1">>
\* a first match pattern with a parenthesis nested inside it
Q_nested_paren ==
    <<"MATCH", " ", "(", "n {name: toLower", "(", "$name", ")", "}", ")",
      " ", "RETURN", " ", "n">>
\* a LIMIT clause that is not the last clause of the text
Q_limit_mid ==
    <<"MATCH", " ", "(", "n", ")", " ", "WITH", " ", "n", " ",
      "LIMIT", " ", "10", " ", "MATCH", " ", "(", "n", ")", "-->", "(", "m", ")",
      " ", "RETURN", " ", "m">>

BaseQueries ==
    {QUERY_TEMPLATES[n].query : n \in TemplateNames}
        \cup {Q_order_limit, Q_limit_only, Q_plain, Q_no_paren,
              Q_nested_paren, Q_limit_mid}

WhereClauses == {<<"n.age", " ", ">", " ", "$min">>}
\* a clause over a property whose name ends with the letters of a keyword:
\* "n.CREDIT_LIMIT > 5"
W_credit_limit == <<"n.CREDIT_", "LIMIT", " ", ">", " ", "5">>
TextWhereClauses == WhereClauses \cup {W_credit_limit}
OrderByClauses == {<<"n.age", " ", "DESC">>}
LimitValues == 0..MaxLimitValue

\* every customizations mapping over the value sets above; an absent key
\* carries the first value of its set
NoWhere == <<"n.age", " ", ">", " ", "$min">>
NoOrderBy == <<"n.age", " ", "DESC">>
Customizations ==
    {c \in [keys : SUBSET CustomKeys, additional_where : WhereClauses,
            order_by : OrderByClauses, limit : LimitValues] :
        /\ ("additional_where" \notin c.keys => c.additional_where = NoWhere)
        /\ ("order_by" \notin c.keys => c.order_by = NoOrderBy)
        /\ ("limit" \notin c.keys => c.limit = 0)}

\* the mappings the text specification customizes with
TextCustomizations ==
    {c \in [keys : SUBSET CustomKeys, additional_where : TextWhereClauses,
            order_by : OrderByClauses, limit : LimitValues] :
        /\ ("additional_where" \notin c.keys => c.additional_where = NoWhere)
        /\ ("order_by" \notin c.keys => c.order_by = NoOrderBy)
        /\ ("limit" \notin c.keys => c.limit = 0)}

(***************************************************************************)
(* What the database returns.  The live schema is what the two metadata    *)
(* queries of get_current_schema return at the time of the call.           *)
(***************************************************************************)
Labels == {"A", "B"}
RelTypes == {"R"}

\* a schema as get_current_schema assembles it: one row per node type and
\* one per relationship type (the property columns are not read by the code)
SchemaOf(ls, rs) ==
    [nodes |-> {[nodeType |-> l] : l \in ls},
     relationships |-> {[relType |-> r] : r \in rs},
     wellFormed |-> TRUE]

Schemas == {SchemaOf(ls, rs) : ls \in SUBSET Labels, rs \in SUBSET RelTypes}

\* a schema argument without the "nodes" key
MalformedSchema == [nodes |-> {}, relationships |-> {}, wellFormed |-> FALSE]

\* query plans: a node has an operator type, identifiers and children
PlanNode(op, ids, children) ==
    [operatorType |-> op, identifiers |-> ids, children |-> children]

ID_n == <<"n">>
ID_nA == <<"n", ":", "A">>
ID_mC == <<"m", ":", "C">>

P_AllNodes == PlanNode("AllNodesScan", {ID_n}, <<>>)
P_LabelScan == PlanNode("NodeByLabelScan", {ID_nA}, <<>>)
P_Results == PlanNode("ProduceResults", {ID_n}, <<P_AllNodes>>)
P_DeepScan ==
    PlanNode("ProduceResults", {ID_n},
             <<PlanNode("Filter", {ID_n}, <<P_LabelScan>>)>>)
P_Cartesian ==
    PlanNode("ProduceResults", {ID_n},
             <<PlanNode("CartesianProduct", {ID_n, ID_mC},
                        <<P_AllNodes, PlanNode("AllNodesScan", {ID_mC}, <<>>)>>)>>)
P_CartesianScan ==
    PlanNode("CartesianProduct", {ID_n}, <<P_AllNodes, P_LabelScan>>)

Plans == {P_Results, P_LabelScan, P_DeepScan, P_Cartesian, P_CartesianScan}

\* the rows a query returns
RowSets == {<<>>, <<"row1", "row2">>}

(***************************************************************************)
(* SchemaValidator: the computations of validate_template_compatibility    *)
(* and validate_query_against_schema.                                      *)
(***************************************************************************)
\* the elements of a set in some order, separated by commas: str(set)
RECURSIVE SetRepr(_)
SetRepr(S) ==
    IF S = {} THEN <<>>
    ELSE LET x == CHOOSE y \in S : TRUE
             rest == SetRepr(S \ {x})
         IN IF rest = <<>> THEN <<x>> ELSE <<x, ", ">> \o rest

MSG_MISSING_LABELS == <<"Template requires ", "labels", " that don't exist in schema: ">>
MSG_MISSING_RELS ==
    <<"Template requires ", "relationship types", " that don't exist in schema: ">>
MSG_LABEL_SCAN ==
    <<"Query uses ", "label", " ", "scan", ". Consider adding indexes for better performance.">>
MSG_CARTESIAN ==
    <<"Query includes ", "cartesian product", " which may impact performance.">>
MSG_UNKNOWN_LABELS == <<"Query references ", "unknown labels", ": ">>
MSG_COULD_NOT == <<"Could not validate query", ": ">>
MSG_PREFIX == <<"Template query warning", ": ">>

\* str(e) of an exception raised by the driver or by the analysis
ERR_TEXT == <<"<error text>">>

\* extract_from_plan that reads the root of the plan only
PlanOperatorsRootOnly(plan_dict) == {plan_dict.operatorType}

\* extract_from_plan: the operators of every node of the plan tree
RECURSIVE PlanOperators(_)
PlanOperators(plan_dict) ==
    {plan_dict.operatorType}
        \cup UNION {PlanOperators(plan_dict.children[i]) :
                        i \in 1..Len(plan_dict.children)}

\* extract_from_plan: the identifiers of every node of the plan tree
RECURSIVE PlanIdentifiers(_)
PlanIdentifiers(plan_dict) ==
    plan_dict.identifiers
        \cup UNION {PlanIdentifiers(plan_dict.children[i]) :
                        i \in 1..Len(plan_dict.children)}

\* ident.split(":")[1]: the piece between the first colon and the next
SplitSecond(ident) ==
    LET i == Find(ident, <<":">>)
        rest == SubSeq(ident, i + 1, Len(ident))
        j == Find(rest, <<":">>)
        piece == IF j = 0 THEN rest ELSE SubSeq(rest, 1, j - 1)
    IN IF piece = <<>> THEN "" ELSE piece[1]

QueryLabels(identifiers) ==
    {SplitSecond(ident) : ident \in {x \in identifiers : Contains(x, <<":">>)}}

SchemaLabels(schema) == {node.nodeType : node \in schema.nodes}
SchemaRelTypes(schema) == {rel.relType : rel \in schema.relationships}

\* the body of the try block of validate_query_against_schema once EXPLAIN
\* has returned `plan`: the warnings list it leaves
AnalysePlan(plan, schema) ==
    LET operators == PlanOperators(plan)
        identifiers == PlanIdentifiers(plan)
        w1 == IF "NodeByLabelScan" \in operators THEN <<MSG_LABEL_SCAN>> ELSE <<>>
        w2 == IF "CartesianProduct" \in operators THEN <<MSG_CARTESIAN>> ELSE <<>>
        unknown_labels == QueryLabels(identifiers) \ SchemaLabels(schema)
    IN IF ~schema.wellFormed
       THEN \* schema["nodes"] raises inside the try
            w1 \o w2 \o <<MSG_COULD_NOT \o ERR_TEXT>>
       ELSE w1 \o w2 \o
            (IF unknown_labels # {}
             THEN <<MSG_UNKNOWN_LABELS \o SetRepr(unknown_labels)>>
             ELSE <<>>)

\* the except branch: EXPLAIN or consume raised
ExplainFailed == <<MSG_COULD_NOT \o ERR_TEXT>>

\* a membership check that reports every required label, present or not
MembershipIssuesAllRequired(required_labels, required_relationship_types, current_schema) ==
    (IF required_labels # {}
     THEN <<MSG_MISSING_LABELS \o SetRepr(required_labels)>> ELSE <<>>)
    \o (IF required_relationship_types # {}
        THEN <<MSG_MISSING_RELS \o SetRepr(required_relationship_types)>> ELSE <<>>)

\* validate_template_compatibility: the required-labels and the
\* required-relationship-types checks
MembershipIssues(required_labels, required_relationship_types, current_schema) ==
    LET missing_labels == required_labels \ SchemaLabels(current_schema)
        missing_rels == required_relationship_types \ SchemaRelTypes(current_schema)
    IN (IF missing_labels # {}
        THEN <<MSG_MISSING_LABELS \o SetRepr(missing_labels)>> ELSE <<>>)
       \o (IF missing_rels # {}
           THEN <<MSG_MISSING_RELS \o SetRepr(missing_rels)>> ELSE <<>>)

\* query warnings appended without the prefix
PrefixedNoPrefix(query_warnings) == query_warnings

\* f"Template query warning: {warning}" for each warning
Prefixed(query_warnings) ==
    [i \in 1..Len(query_warnings) |-> MSG_PREFIX \o query_warnings[i]]

(***************************************************************************)
(* Inputs of the calls.                                                    *)
(***************************************************************************)
\* tool names, as token sequences: name.startswith("template.") and
\* name.split(".", 1)[1] read the tokens
CoreTools == {<<"store-facts">>, <<"query-knowledge">>, <<"find-connections">>}
CypherTool == <<"execute-cypher">>
TemplatePrefix == <<"template", ".">>
TemplateTool(n) == TemplatePrefix \o <<n>>
UnknownTools == {<<"not-a-real-tool">>, <<"invalid-tool">>}
ToolNames ==
    CoreTools \cup {CypherTool} \cup UnknownTools
        \cup {TemplateTool(n) : n \in TemplateNames \cup {"invalid"}}

\* the arguments of a call: the parameter names supplied (keys) with their
\* values, and whether the input model of a core tool accepts the mapping
ParamKeys == {"limit", "operator"}
NoLimit == IntValue(0)
NoOperator == StrValue("=")
LimitParams ==
    {IntValue(0), IntValue(1), IntValue(MaxLimitRecommendation + 1),
     IntValue(MaxLimitGraphAnalytics + 1), StrValue("abc")}
OperatorParams == {StrValue("="), StrValue("LIKE")}

Arguments ==
    {a \in [accepted : BOOLEAN, keys : SUBSET ParamKeys,
             limit : LimitParams \cup {NoLimit}, operator : OperatorParams] :
        /\ ("limit" \notin a.keys => a.limit = NoLimit)
        /\ ("operator" \notin a.keys => a.operator = NoOperator)}

NoArguments == [accepted |-> TRUE, keys |-> {}, limit |-> NoLimit, operator |-> NoOperator]

\* the arguments given to a core tool: only their acceptance matters
CoreArguments == {a \in Arguments : a.keys = {}}
\* the arguments given to a template: one parameter at most
TemplateArguments == {a \in Arguments : a.accepted /\ Cardinality(a.keys) <= 1}
\* the parameters given to execute_template, which passes them on
ExecuteParameters ==
    {NoArguments,
     [NoArguments EXCEPT !.keys = {"limit"}, !.limit = IntValue(1)],
     [NoArguments EXCEPT !.keys = {"limit"}, !.limit = IntValue(MaxLimitGraphAnalytics + 1)],
     [NoArguments EXCEPT !.keys = {"operator"}, !.operator = StrValue("LIKE")]}

\* the parameters given to validate_template: one parameter at most, a
\* limit around the bounds of the rules or a value for a parameter whose rule
\* has neither recognised form
UnenforcedParams == {"relationship_types", "timestamp_property"}
ValidateLimits ==
    {IntValue(0), IntValue(1),
     IntValue(MaxLimitRecommendation), IntValue(MaxLimitRecommendation + 1),
     IntValue(MaxLimitGraphAnalytics), IntValue(MaxLimitGraphAnalytics + 1)}
UnenforcedValues == {IntValue(0), StrValue("abc")}
ValidateParameters ==
    {a \in [accepted : {TRUE}, keys : {{}} \cup {{k} : k \in {"limit"} \cup UnenforcedParams},
             limit : ValidateLimits \cup {NoLimit}, operator : {NoOperator},
             relationship_types : UnenforcedValues,
             timestamp_property : UnenforcedValues] :
        /\ ("limit" \notin a.keys => a.limit = NoLimit)
        /\ ("relationship_types" \notin a.keys => a.relationship_types = IntValue(0))
        /\ ("timestamp_property" \notin a.keys => a.timestamp_property = IntValue(0))}

\* the customizations the calls supply (the text specification supplies all)
CallCustomizations ==
    {c \in Customizations : "limit" \in c.keys => c.limit = MaxLimitValue}

\* the queries handed to the validator directly
ValidatorQueries == {Q_plain, Q_order_limit}

(***************************************************************************)
(* SchemaValidator.validate_schema_changes: its computations and inputs.   *)
(***************************************************************************)
MSG_LABELS_EXIST == <<"Labels already exist in schema", ": ">>
MSG_RELS_EXIST == <<"Relationship types already exist in schema", ": ">>
MSG_INDEX_EXISTS == <<"Index already exists for ">>

\* the two conflict checks on the schema just fetched
ConflictIssues(new_labels, new_relationship_types, current_schema) ==
    LET conflicting_labels == new_labels \cap SchemaLabels(current_schema)
        conflicting_rels == new_relationship_types \cap SchemaRelTypes(current_schema)
    IN (IF conflicting_labels # {}
        THEN <<MSG_LABELS_EXIST \o SetRepr(conflicting_labels)>> ELSE <<>>)
       \o (IF conflicting_rels # {}
           THEN <<MSG_RELS_EXIST \o SetRepr(conflicting_rels)>> ELSE <<>>)

\* an index comparison that looks at the labels only
IndexMatchesLabelsOnly(existing, new_index) ==
    existing.labelsOrTypes = new_index.labels

\* the test of the inner loop: the same labels and the same properties
IndexMatches(existing, new_index) ==
    /\ existing.labelsOrTypes = new_index.labels
    /\ existing.properties = new_index.properties

\* the two nested loops over the proposed and the existing indexes
RECURSIVE IndexIssuesFrom(_, _, _, _)
IndexIssuesFrom(new_indexes, existing_indexes, i, j) ==
    IF i > Len(new_indexes) THEN <<>>
    ELSE IF j > Len(existing_indexes)
    THEN IndexIssuesFrom(new_indexes, existing_indexes, i + 1, 1)
    ELSE (IF IndexMatches(existing_indexes[j], new_indexes[i])
          THEN <<MSG_INDEX_EXISTS \o new_indexes[i].labels \o <<" on ">>
                   \o new_indexes[i].properties>>
          ELSE <<>>)
         \o IndexIssuesFrom(new_indexes, existing_indexes, i, j + 1)

IndexIssues(new_indexes, existing_indexes) ==
    IndexIssuesFrom(new_indexes, existing_indexes, 1, 1)

\* a row of SHOW INDEXES and a proposed index (the columns the code reads)
ExistingIndex(labels, properties) == [labelsOrTypes |-> labels, properties |-> properties]
NewIndex(labels, properties) == [labels |-> labels, properties |-> properties]

\* the rows SHOW INDEXES returns
ExistingIndexSets ==
    {<<>>,
     <<ExistingIndex(<<"A">>, <<"name">>)>>,
     <<ExistingIndex(<<"A">>, <<"name">>), ExistingIndex(<<"B">>, <<"age">>)>>}

\* the indexes callers propose
NewIndexSets ==
    {<<>>,
     <<NewIndex(<<"A">>, <<"name">>)>>,
     <<NewIndex(<<"A">>, <<"age">>)>>,
     <<NewIndex(<<"B">>, <<"name">>), NewIndex(<<"B">>, <<"age">>)>>}

(***************************************************************************)
(* State.                                                                  *)
(***************************************************************************)
VARIABLES
    pc,         \* position of the call in progress; "idle" between calls
    call,       \* the call in progress: the entry point and its arguments
    snapshot,   \* <<schema>> once get_current_schema has returned, else <<>>
    plan,       \* <<plan>> once EXPLAIN has returned a plan, else <<>>
    issues,     \* validate_template_compatibility: the issues list
    final,      \* execute_template: the query text sent to the database
    rows,       \* the rows the query of the call produced
    stats,      \* execute_template: execution_stats ("none" for None)
    result,     \* how the call ended: a return value or an exception
    trace,      \* the database operations of the call, in order
    sessions,   \* the number of open sessions
    tbase,      \* text specification: the base query text
    ttext,      \* text specification: the text after the customizations applied
    tapplied,   \* text specification: the customizations applied, in order
    cstate,     \* concurrent specification: each call's kind, position and session
    live,       \* concurrent specification: the sessions that are open
    log,        \* concurrent specification: who opened, used and closed a session
    graph,      \* knowledge-graph specification: the committed contents of the database
    gstate      \* knowledge-graph specification: each call's arguments, locals and outcome

callVars == <<pc, call, snapshot, plan, issues, final, rows, stats, result, trace, sessions>>
textVars == <<tbase, ttext, tapplied>>
concVars == <<cstate, live, log>>
graphVars == <<graph, gstate>>
vars == <<pc, call, snapshot, plan, issues, final, rows, stats, result, trace, sessions,
          tbase, ttext, tapplied, cstate, live, log, graph, gstate>>

NoCall ==
    [kind |-> "none", name |-> <<>>, query |-> <<>>, schema |-> MalformedSchema,
     required_labels |-> {}, required_relationship_types |-> {},
     customizations |-> CHOOSE c \in Customizations : c.keys = {},
     arguments |-> NoArguments,
     new_labels |-> {}, new_relationship_types |-> {}, new_indexes |-> <<>>]

NoResult == [kind |-> "none", exc |-> "", details |-> <<>>, value |-> <<>>]

CallIdle ==
    /\ pc = "idle"
    /\ call = NoCall
    /\ snapshot = <<>>
    /\ plan = <<>>
    /\ issues = <<>>
    /\ final = <<>>
    /\ rows = <<>>
    /\ stats = "none"
    /\ result = NoResult
    /\ trace = <<>>
    /\ sessions = 0

TextIdle ==
    /\ tbase = <<>>
    /\ ttext = <<>>
    /\ tapplied = <<>>

\* the concurrent calls: none has started, no session exists
Callers == 1..MaxCallers
NoSession == 0
IdleCaller == [kind |-> "none", pc |-> "idle", session |-> NoSession, opened |-> 0,
               after |-> "none", outcome |-> "none"]

ConcIdle ==
    /\ cstate = [p \in Callers |-> IdleCaller]
    /\ live = {}
    /\ log = {}

(***************************************************************************)
(* The knowledge graph of server.py: what store_facts is called with, what *)
(* the database holds, and the calls before they start.                    *)
(***************************************************************************)
\* Optional[str]: None, or a string
None == <<>>
Some(t) == <<t>>
\* `x is not None`
IsNotNone(o) == o # None
\* `if x` for an Optional[str]: None and "" are falsy
Truthy(o) == o # None /\ o[1] # ""

\* the Fact model
Fact(subject, predicate, object) ==
    [subject |-> subject, predicate |-> predicate, object |-> object]
F_knows == Fact("Alice", "KNOWS", "Bob")
F_uses == Fact("Alice", "USES", "Python")

\* the arguments of store_facts and of query_knowledge
FactLists == {<<F_knows>>, <<F_uses, F_knows>>}
StoreContexts == {None, Some(""), Some("a")}
QueryContexts == {None, Some(""), Some("a"), Some("default")}

\* the store_facts calls, each made once, and the caller of query_knowledge,
\* which makes one call after the other
Stores == 1..MaxStores
Query == 0
GraphCallers == {Query} \cup Stores

\* the database: the Context nodes and the RELATES relationships (an Entity
\* node exists for every end of a relationship)
EmptyGraph == [contexts |-> {}, relations |-> {}]

IdleGraphCaller ==
    [pc |-> "idle", kind |-> "none", args |-> [context |-> None, facts |-> <<>>],
     context |-> "", next |-> 1, tx |-> EmptyGraph, stored_facts |-> <<>>,
     result |-> NoResult]

GraphIdle ==
    /\ graph = EmptyGraph
    /\ gstate = [p \in GraphCallers |-> IdleGraphCaller]

Init == CallIdle /\ TextIdle /\ ConcIdle /\ GraphIdle

(***************************************************************************)
(* How a call ends.                                                        *)
(***************************************************************************)
Returned(value) == [kind |-> "return", exc |-> "", details |-> <<>>, value |-> value]
Raised(exc, details) == [kind |-> "raise", exc |-> exc, details |-> details, value |-> <<>>]

\* a TextContent block; its text is the JSON document, kept structured
TextContent(body) == [type |-> "text", text |-> body]

\* ResourceHandler.handle_call_tool, the except clause: one text block with
\* the exception's class name and message
HandlerError(exc, details) ==
    Returned(<<TextContent([error |-> exc, details |-> details])>>)

\* Neo4jServer.format_error: the names ValidationError and Neo4jError are
\* not defined in server.py, so evaluating the isinstance test raises
\* NameError whatever the error is
FormatError(exc, details) == Raised("NameError", <<"name 'ValidationError' is not defined">>)

\* Neo4jServer.format_response
FormatResponse(response) == Returned(<<TextContent([result |-> response])>>)

\* an exception leaves the function in progress: at the tool-call boundary of
\* ResourceHandler it is caught and rendered, elsewhere it reaches the caller
Propagate(exc, details) ==
    IF call.kind = "handle_call_tool"
    THEN HandlerError(exc, details)
    ELSE Raised(exc, details)

Finish(res) ==
    /\ pc' = "done"
    /\ result' = res

(***************************************************************************)
(* SchemaValidator.get_current_schema                                      *)
(***************************************************************************)
\* async with self.driver.session() as session
GcsSession ==
    /\ pc = "gcs_session"
    /\ \/ /\ pc' = "gcs_nodes"
          /\ sessions' = sessions + 1
          /\ trace' = Append(trace, "open")
          /\ UNCHANGED result
       \/ /\ Finish(Propagate("ServiceUnavailable", ERR_TEXT))
          /\ trace' = Append(trace, "open_failed")
          /\ UNCHANGED sessions
    /\ UNCHANGED <<call, snapshot, plan, issues, final, rows, stats, textVars, concVars, graphVars>>

\* the node-type metadata query and result.single()
GcsNodes ==
    /\ pc = "gcs_nodes"
    /\ \/ /\ pc' = "gcs_rels"
          /\ trace' = Append(trace, "run_node_schema")
          /\ UNCHANGED <<result, sessions>>
       \/ /\ Finish(Propagate("Neo4jError", ERR_TEXT))
          /\ trace' = Append(trace, "run_node_schema_failed")
          /\ sessions' = sessions - 1
    /\ UNCHANGED <<call, snapshot, plan, issues, final, rows, stats, textVars, concVars, graphVars>>

\* where the caller of get_current_schema goes on with the schema
AfterFetch ==
    IF call.kind = "validate_schema_changes" THEN "vsc_check" ELSE "vtc_check"

\* a schema fetch that answers a failed metadata query with an empty schema
GcsRelsSwallowed ==
    /\ pc = "gcs_rels"
    /\ sessions' = sessions - 1
    /\ \E s \in Schemas \cup {SchemaOf({}, {})} :
          /\ snapshot' = <<s>>
          /\ trace' = Append(trace, IF s = SchemaOf({}, {}) THEN "run_rel_schema_failed"
                                    ELSE "run_rel_schema")
          /\ IF call.kind = "get_current_schema"
             THEN Finish(Returned(s))
             ELSE pc' = AfterFetch /\ UNCHANGED result
    /\ UNCHANGED <<call, plan, issues, final, rows, stats, textVars, concVars, graphVars>>

\* the relationship-type metadata query; the schema is returned and the
\* session closed
GcsRels ==
    /\ pc = "gcs_rels"
    /\ sessions' = sessions - 1
    /\ \/ \E s \in Schemas :
            /\ snapshot' = <<s>>
            /\ trace' = Append(trace, "run_rel_schema")
            /\ IF call.kind = "get_current_schema"
               THEN Finish(Returned(s))
               ELSE pc' = AfterFetch /\ UNCHANGED result
       \/ /\ Finish(Propagate("Neo4jError", ERR_TEXT))
          /\ trace' = Append(trace, "run_rel_schema_failed")
          /\ UNCHANGED snapshot
    /\ UNCHANGED <<call, plan, issues, final, rows, stats, textVars, concVars, graphVars>>

(***************************************************************************)
(* SchemaValidator.validate_template_compatibility                         *)
(***************************************************************************)
\* the two membership checks on the schema just fetched
VtcCheck ==
    /\ pc = "vtc_check"
    /\ issues' = MembershipIssues(call.required_labels,
                                  call.required_relationship_types, snapshot[1])
    /\ pc' = "vq_session"
    /\ UNCHANGED <<call, snapshot, plan, final, rows, stats, result, trace, sessions,
                   textVars, concVars, graphVars>>

(***************************************************************************)
(* SchemaValidator.validate_query_against_schema                           *)
(***************************************************************************)
\* the schema the function was given
SchemaArgument ==
    IF call.kind = "validate_query_against_schema" THEN call.schema ELSE snapshot[1]

\* async with self.driver.session() as session -- outside the try block
VqSession ==
    /\ pc = "vq_session"
    /\ \/ /\ pc' = "vq_explain"
          /\ sessions' = sessions + 1
          /\ trace' = Append(trace, "open")
          /\ UNCHANGED result
       \/ /\ Finish(Propagate("ServiceUnavailable", ERR_TEXT))
          /\ trace' = Append(trace, "open_failed")
          /\ UNCHANGED sessions
    /\ UNCHANGED <<call, snapshot, plan, issues, final, rows, stats, textVars, concVars, graphVars>>

(***************************************************************************)
(* ResourceHandler.validate_template: the parameter rules                  *)
(***************************************************************************)
\* a bound check that also rejects the bound itself
RuleIssuesOffByOne(rule, parameters) ==
    IF rule.param \notin parameters.keys THEN <<>>
    ELSE LET v == parameters[rule.param] IN
      CASE rule.form = "one_of" ->
              IF v.str \notin rule.allowed
              THEN <<<<"Parameter '", rule.param, "' ", "must be one of">>>> ELSE <<>>
        [] rule.form = "positive_max" ->
              IF ~v.isInt
              THEN <<<<"Invalid value for parameter '", rule.param, "'">>>>
              ELSE (IF v.int <= 0
                    THEN <<<<"Parameter '", rule.param, "' ", "must be positive">>>>
                    ELSE <<>>)
                   \o (IF v.int >= rule.max
                       THEN <<<<"Parameter '", rule.param, "' ", "must be <= ",
                                ToString(rule.max)>>>>
                       ELSE <<>>)
        [] OTHER -> <<>>

\* the issue, if any, of one validation rule for the supplied parameters
RuleIssues(rule, parameters) ==
    IF rule.param \notin parameters.keys THEN <<>>
    ELSE LET v == parameters[rule.param] IN
      CASE rule.form = "one_of" ->
              IF v.str \notin rule.allowed
              THEN <<<<"Parameter '", rule.param, "' ", "must be one of">>>> ELSE <<>>
        [] rule.form = "positive_max" ->
              IF ~v.isInt
              THEN <<<<"Invalid value for parameter '", rule.param, "'">>>>
              ELSE (IF v.int <= 0
                    THEN <<<<"Parameter '", rule.param, "' ", "must be positive">>>>
                    ELSE <<>>)
                   \o (IF v.int > rule.max
                       THEN <<<<"Parameter '", rule.param, "' ", "must be <= ",
                                ToString(rule.max)>>>>
                       ELSE <<>>)
        [] OTHER -> <<>>

\* validate_template: the parameter issues, rule by rule
RECURSIVE ParameterIssuesFrom(_, _, _)
ParameterIssuesFrom(rules, parameters, i) ==
    IF i > Len(rules) THEN <<>>
    ELSE RuleIssues(rules[i], parameters) \o ParameterIssuesFrom(rules, parameters, i + 1)

ParameterIssues(name, parameters) ==
    ParameterIssuesFrom(ValidationRules(name), parameters, 1)

\* an execute_template that raises the issues instead of keeping them as
\* warnings
VqReturnRejecting(warnings) ==
    IF call.kind = "validate_query_against_schema"
    THEN /\ Finish(Returned(warnings))
         /\ UNCHANGED <<issues, final>>
    ELSE /\ issues' = issues \o Prefixed(warnings)
         /\ IF call.kind = "validate_template_compatibility"
            THEN Finish(Returned(issues')) /\ UNCHANGED final
            ELSE IF call.kind = "validate_template"
            THEN /\ Finish(Returned(ParameterIssues(call.name[1], call.arguments)
                                       \o issues'))
                 /\ UNCHANGED final
            ELSE IF call.kind = "execute_template"
            THEN IF issues' # <<>>
                 THEN Finish(Raised("TemplateRejected", ERR_TEXT)) /\ UNCHANGED final
                 ELSE /\ pc' = "et_session"
                      /\ final' = Customize(QUERY_TEMPLATES[call.name[1]].query,
                                            call.customizations)
                      /\ UNCHANGED result
            ELSE /\ pc' = "ht_check"
                 /\ UNCHANGED <<result, final>>

\* where the warnings of validate_query_against_schema go
VqReturn(warnings) ==
    IF call.kind = "validate_query_against_schema"
    THEN /\ Finish(Returned(warnings))
         /\ UNCHANGED <<issues, final>>
    ELSE /\ issues' = issues \o Prefixed(warnings)
         /\ IF call.kind = "validate_template_compatibility"
            THEN Finish(Returned(issues')) /\ UNCHANGED final
            ELSE IF call.kind = "validate_template"
            THEN /\ Finish(Returned(ParameterIssues(call.name[1], call.arguments)
                                       \o issues'))
                 /\ UNCHANGED final
            ELSE IF call.kind = "execute_template"
            THEN /\ pc' = "et_session"
                 /\ final' = Customize(QUERY_TEMPLATES[call.name[1]].query,
                                       call.customizations)
                 /\ UNCHANGED result
            ELSE /\ pc' = "ht_check"
                 /\ UNCHANGED <<result, final>>

\* the try block: EXPLAIN, consume and the analysis of the plan; every
\* exception in it becomes a warning
VqExplain ==
    /\ pc = "vq_explain"
    /\ sessions' = sessions - 1
    /\ \/ \E p \in Plans :
            /\ plan' = <<p>>
            /\ trace' = Append(trace, "explain")
            /\ VqReturn(AnalysePlan(p, SchemaArgument))
       \/ /\ UNCHANGED plan
          /\ trace' = Append(trace, "explain_failed")
          /\ VqReturn(ExplainFailed)
    /\ UNCHANGED <<call, snapshot, rows, stats, textVars, concVars, graphVars>>

(***************************************************************************)
(* TemplateExecutor.execute_template, after the compatibility check        *)
(***************************************************************************)
\* async with self.driver.session() as session -- inside the try, whose
\* except clause logs and re-raises
EtSession ==
    /\ pc = "et_session"
    /\ \/ /\ pc' = "et_run"
          /\ sessions' = sessions + 1
          /\ trace' = Append(trace, "open")
          /\ UNCHANGED result
       \/ /\ Finish(Propagate("ServiceUnavailable", ERR_TEXT))
          /\ trace' = Append(trace, "open_failed")
          /\ UNCHANGED sessions
    /\ UNCHANGED <<call, snapshot, plan, issues, final, rows, stats, textVars, concVars, graphVars>>

\* result = await session.run(query, parameters)
EtRun ==
    /\ pc = "et_run"
    /\ \/ \E r \in RowSets :
            /\ rows' = r
            /\ pc' = "et_consume"
            /\ trace' = Append(trace, "run_template")
            /\ UNCHANGED <<result, sessions>>
       \/ /\ Finish(Propagate("Neo4jError", ERR_TEXT))
          /\ trace' = Append(trace, "run_template_failed")
          /\ sessions' = sessions - 1
          /\ UNCHANGED rows
    /\ UNCHANGED <<call, snapshot, plan, issues, final, stats, textVars, concVars, graphVars>>

\* summary = await result.consume(); a failure is ignored
EtConsume ==
    /\ pc = "et_consume"
    /\ \/ stats' = "summary" /\ trace' = Append(trace, "consume")
       \/ stats' = "none" /\ trace' = Append(trace, "consume_failed")
    /\ pc' = "et_data"
    /\ UNCHANGED <<call, snapshot, plan, issues, final, rows, result, sessions, textVars, concVars, graphVars>>

\* the response execute_template builds
TemplateExecutionResponse(data) ==
    [results |-> data, template_used |-> call.name[1],
     execution_stats |-> stats, warnings |-> issues]

\* data = await result.data(), after consume: the driver hands over the rows
\* (a result that buffers them), or none (consume discarded them), or
\* raises (the result is already consumed)
EtData ==
    /\ pc = "et_data"
    /\ sessions' = sessions - 1
    /\ \/ \E data \in {rows, <<>>} :
            /\ Finish(Returned(TemplateExecutionResponse(data)))
            /\ trace' = Append(trace, "data")
       \/ /\ Finish(Propagate("ResultConsumedError", ERR_TEXT))
          /\ trace' = Append(trace, "data_failed")
    /\ UNCHANGED <<call, snapshot, plan, issues, final, rows, stats, textVars, concVars, graphVars>>

(***************************************************************************)
(* SchemaValidator.validate_schema_changes                                 *)
(***************************************************************************)
\* the label and relationship-type conflicts with the schema just fetched
VscCheck ==
    /\ pc = "vsc_check"
    /\ issues' = ConflictIssues(call.new_labels, call.new_relationship_types,
                                snapshot[1])
    /\ pc' = "vsc_session"
    /\ UNCHANGED <<call, snapshot, plan, final, rows, stats, result, trace, sessions,
                   textVars, concVars, graphVars>>

\* async with self.driver.session() as session
VscSession ==
    /\ pc = "vsc_session"
    /\ \/ /\ pc' = "vsc_indexes"
          /\ sessions' = sessions + 1
          /\ trace' = Append(trace, "open")
          /\ UNCHANGED result
       \/ /\ Finish(Propagate("ServiceUnavailable", ERR_TEXT))
          /\ trace' = Append(trace, "open_failed")
          /\ UNCHANGED sessions
    /\ UNCHANGED <<call, snapshot, plan, issues, final, rows, stats, textVars, concVars, graphVars>>

\* SHOW INDEXES, result.data() and the comparison of the indexes
VscIndexes ==
    /\ pc = "vsc_indexes"
    /\ sessions' = sessions - 1
    /\ \/ \E existing_indexes \in ExistingIndexSets :
            /\ rows' = existing_indexes
            /\ issues' = issues \o IndexIssues(call.new_indexes, existing_indexes)
            /\ trace' = Append(trace, "show_indexes")
            /\ Finish(Returned(issues'))
       \/ /\ Finish(Propagate("Neo4jError", ERR_TEXT))
          /\ trace' = Append(trace, "show_indexes_failed")
          /\ UNCHANGED <<rows, issues>>
    /\ UNCHANGED <<call, snapshot, plan, final, stats, textVars, concVars, graphVars>>

(***************************************************************************)
(* ResourceHandler.validate_template and _handle_template_tool             *)
(***************************************************************************)
\* _handle_template_tool after validate_template: any issue aborts the call.
\* ValidationError(field=..., details=...) lacks the required field `error`,
\* so constructing it raises pydantic's ValidationError.
HtCheck ==
    /\ pc = "ht_check"
    /\ LET validation_issues ==
               ParameterIssues(call.name[3], call.arguments) \o issues
       IN IF validation_issues # <<>>
          THEN Finish(Propagate("ValidationError", ERR_TEXT))
          ELSE pc' = "ht_session" /\ UNCHANGED result
    /\ UNCHANGED <<call, snapshot, plan, issues, final, rows, stats, trace, sessions,
                   textVars, concVars, graphVars>>

HtSession ==
    /\ pc = "ht_session"
    /\ \/ /\ pc' = "ht_run"
          /\ sessions' = sessions + 1
          /\ trace' = Append(trace, "open")
          /\ UNCHANGED result
       \/ /\ Finish(Propagate("ServiceUnavailable", ERR_TEXT))
          /\ trace' = Append(trace, "open_failed")
          /\ UNCHANGED sessions
    /\ UNCHANGED <<call, snapshot, plan, issues, final, rows, stats, textVars, concVars, graphVars>>

\* the QueryResponse of _handle_template_tool
QueryResponse(data, template_name) ==
    [results |-> data, total_results |-> Len(data), template_used |-> template_name]

\* session.run(template.query, arguments) and result.data()
HtRun ==
    /\ pc = "ht_run"
    /\ sessions' = sessions - 1
    /\ final' = QUERY_TEMPLATES[call.name[3]].query
    /\ \/ \E r \in RowSets :
            /\ rows' = r
            /\ trace' = Append(trace, "run_template")
            /\ Finish(Returned(<<TextContent([result |-> QueryResponse(r, call.name[3])])>>))
       \/ /\ Finish(Propagate("Neo4jError", ERR_TEXT))
          /\ trace' = Append(trace, "run_template_failed")
          /\ UNCHANGED rows
    /\ UNCHANGED <<call, snapshot, plan, issues, stats, textVars, concVars, graphVars>>

(***************************************************************************)
(* ResourceHandler.handle_call_tool: the other routes                      *)
(***************************************************************************)
\* what a core graph handler does with accepted arguments: it returns a
\* result, or one of its statements raises
DownstreamFailures == {"AttributeError", "NameError", "Neo4jError", "ServiceUnavailable"}

\* _handle_graph_tool
HGraph ==
    /\ pc = "h_graph"
    /\ IF call.arguments.accepted
       THEN \/ /\ Finish(Returned(<<TextContent([result |-> call.name])>>))
               /\ trace' = Append(trace, "graph_tool")
            \/ \E exc \in DownstreamFailures :
                  /\ Finish(Propagate(exc, ERR_TEXT))
                  /\ trace' = Append(trace, "graph_tool_failed")
       ELSE /\ Finish(Propagate("ValidationError", ERR_TEXT))
            /\ UNCHANGED trace
    /\ UNCHANGED <<call, snapshot, plan, issues, final, rows, stats, sessions, textVars, concVars, graphVars>>

\* _handle_cypher_tool: SchemaValidator has no validate_query method
HCypher ==
    /\ pc = "h_cypher"
    /\ IF call.arguments.accepted
       THEN Finish(Propagate("AttributeError", ERR_TEXT))
       ELSE Finish(Propagate("ValidationError", ERR_TEXT))
    /\ UNCHANGED <<call, snapshot, plan, issues, final, rows, stats, trace, sessions,
                   textVars, concVars, graphVars>>

(***************************************************************************)
(* server.py handle_call_tool                                              *)
(***************************************************************************)
\* `return [await server.format_error(e)]` in an except clause of the outer
\* try: an exception of format_error is caught by the outer except clause,
\* which calls format_error again
ServerError(exc, details) ==
    LET first == FormatError(exc, details) IN
    IF first.kind = "raise" THEN FormatError(first.exc, first.details) ELSE first

\* input_model.model_validate(arguments or {})
StValidate ==
    /\ pc = "st_validate"
    /\ IF call.arguments.accepted
       THEN pc' = "st_handler" /\ UNCHANGED result
       ELSE Finish(ServerError("ValidationError", ERR_TEXT))
    /\ UNCHANGED <<call, snapshot, plan, issues, final, rows, stats, trace, sessions,
                   textVars, concVars, graphVars>>

\* result = await handler(validated_args)
StHandler ==
    /\ pc = "st_handler"
    /\ \/ /\ Finish(FormatResponse(call.name))
          /\ trace' = Append(trace, "graph_tool")
       \/ \E exc \in DownstreamFailures :
             /\ Finish(ServerError(exc, ERR_TEXT))
             /\ trace' = Append(trace, "graph_tool_failed")
    /\ UNCHANGED <<call, snapshot, plan, issues, final, rows, stats, sessions, textVars, concVars, graphVars>>

(***************************************************************************)
(* ResourceHandler.initialize                                              *)
(***************************************************************************)
InitSession ==
    /\ pc = "init_session"
    /\ \/ /\ pc' = "init_ping"
          /\ sessions' = sessions + 1
          /\ trace' = Append(trace, "open")
          /\ UNCHANGED result
       \/ /\ Finish(Propagate("ServiceUnavailable", ERR_TEXT))
          /\ trace' = Append(trace, "open_failed")
          /\ UNCHANGED sessions
    /\ UNCHANGED <<call, snapshot, plan, issues, final, rows, stats, textVars, concVars, graphVars>>

\* session.run("RETURN 1"), then self.schema_validator.initialize():
\* SchemaValidator has no initialize method, and the template executor's
\* initialize is never reached (TemplateExecutor has none either)
InitPing ==
    /\ pc = "init_ping"
    /\ sessions' = sessions - 1
    /\ \/ /\ Finish(Propagate("AttributeError", ERR_TEXT))
          /\ trace' = Append(trace, "run_ping")
       \/ /\ Finish(Propagate("ServiceUnavailable", ERR_TEXT))
          /\ trace' = Append(trace, "run_ping_failed")
    /\ UNCHANGED <<call, snapshot, plan, issues, final, rows, stats, textVars, concVars, graphVars>>

(***************************************************************************)
(* The entry points.                                                       *)
(***************************************************************************)
Enter(c, at) ==
    /\ pc = "idle"
    /\ call' = c
    /\ pc' = at
    /\ UNCHANGED <<snapshot, plan, issues, final, rows, stats, result, trace, sessions,
                   textVars, concVars, graphVars>>

\* a call that ends before it reaches the database
EnterAndFinish(c, res) ==
    /\ pc = "idle"
    /\ call' = c
    /\ Finish(res)
    /\ UNCHANGED <<snapshot, plan, issues, final, rows, stats, trace, sessions, textVars, concVars, graphVars>>

CallGetCurrentSchema ==
    Enter([NoCall EXCEPT !.kind = "get_current_schema"], "gcs_session")

CallValidateTemplateCompatibility(template_query, required_labels, required_relationship_types) ==
    Enter([NoCall EXCEPT !.kind = "validate_template_compatibility",
                         !.name = <<"template">>,
                         !.query = template_query,
                         !.required_labels = required_labels,
                         !.required_relationship_types = required_relationship_types],
          "gcs_session")

CallValidateQueryAgainstSchema(query, schema) ==
    Enter([NoCall EXCEPT !.kind = "validate_query_against_schema",
                         !.query = query, !.schema = schema],
          "vq_session")

\* an execute_template that sends the query without the compatibility check
CallExecuteTemplateUnchecked(template_name, parameters, customizations) ==
    LET c == [NoCall EXCEPT !.kind = "execute_template",
                            !.name = <<template_name>>,
                            !.arguments = parameters,
                            !.customizations = customizations]
    IN IF template_name \notin DOMAIN QUERY_TEMPLATES
       THEN EnterAndFinish(c, Raised("ValueError", <<"Unknown template", ": ", template_name>>))
       ELSE Enter([c EXCEPT !.query = QUERY_TEMPLATES[template_name].query], "et_session")

\* execute_template: the lookup in QUERY_TEMPLATES, then the compatibility
\* check with the template's own query and requirements
CallExecuteTemplate(template_name, parameters, customizations) ==
    LET c == [NoCall EXCEPT !.kind = "execute_template",
                            !.name = <<template_name>>,
                            !.arguments = parameters,
                            !.customizations = customizations]
    IN IF template_name \notin DOMAIN QUERY_TEMPLATES
       THEN EnterAndFinish(c, Raised("ValueError", <<"Unknown template", ": ", template_name>>))
       ELSE Enter([c EXCEPT !.query = QUERY_TEMPLATES[template_name].query,
                            !.required_labels = QUERY_TEMPLATES[template_name].required_labels,
                            !.required_relationship_types =
                                QUERY_TEMPLATES[template_name].required_relationships],
                  "gcs_session")

\* ResourceHandler.validate_template: the lookup in QUERY_TEMPLATES, the
\* parameter rules, then the compatibility check of the template
CallValidateTemplate(template_name, parameters) ==
    LET c == [NoCall EXCEPT !.kind = "validate_template",
                            !.name = <<template_name>>,
                            !.arguments = parameters]
    IN IF template_name \notin DOMAIN QUERY_TEMPLATES
       THEN EnterAndFinish(c, Raised("ValueError", <<"Unknown template", ": ", template_name>>))
       ELSE Enter([c EXCEPT !.query = QUERY_TEMPLATES[template_name].query,
                            !.required_labels = QUERY_TEMPLATES[template_name].required_labels,
                            !.required_relationship_types =
                                QUERY_TEMPLATES[template_name].required_relationships],
                  "gcs_session")

CallValidateSchemaChanges(new_labels, new_relationship_types, new_indexes) ==
    Enter([NoCall EXCEPT !.kind = "validate_schema_changes",
                         !.new_labels = new_labels,
                         !.new_relationship_types = new_relationship_types,
                         !.new_indexes = new_indexes],
          "gcs_session")

\* name.split(".", 1)[1] names a template of the registry
NamesTemplate(name) == Len(name) = 3 /\ name[3] \in DOMAIN QUERY_TEMPLATES

\* ResourceHandler.handle_call_tool: the route of a tool name
Route(name) ==
    IF StartsWith(name, TemplatePrefix) THEN "template"
    ELSE IF name \in CoreTools THEN "graph"
    ELSE IF name = CypherTool THEN "cypher"
    ELSE "unknown"

\* ResourceHandler.handle_call_tool
CallHandleCallTool(name, arguments) ==
    LET c == [NoCall EXCEPT !.kind = "handle_call_tool", !.name = name,
                            !.arguments = arguments]
        route == Route(name)
    IN CASE route = "template" ->
              IF ~NamesTemplate(name)
              THEN EnterAndFinish(c, HandlerError("ValueError",
                        <<"Unknown template", ": ">> \o SubSeq(name, 3, Len(name))))
              ELSE Enter([c EXCEPT !.query = QUERY_TEMPLATES[name[3]].query,
                                   !.required_labels = QUERY_TEMPLATES[name[3]].required_labels,
                                   !.required_relationship_types =
                                       QUERY_TEMPLATES[name[3]].required_relationships],
                         "gcs_session")
         [] route = "graph" -> Enter(c, "h_graph")
         [] route = "cypher" -> Enter(c, "h_cypher")
         [] OTHER -> EnterAndFinish(c, HandlerError("ValueError",
                        <<"Unknown tool", ": ">> \o name))

\* server.py handle_call_tool: tool_handlers.get(name)
CallServerTool(name, arguments) ==
    LET c == [NoCall EXCEPT !.kind = "server_call_tool", !.name = name,
                            !.arguments = arguments]
    IN IF name \notin CoreTools
       THEN EnterAndFinish(c, ServerError("ValueError", <<"Unknown tool", ": ">> \o name))
       ELSE Enter(c, "st_validate")

\* template.parameter_descriptions.keys(), in declaration order
ParameterDescriptions(name) ==
    CASE name = "entity_search" ->
            <<"label", "property", "operator", "value", "relationship_types">>
      [] name = "graph_analytics" -> <<"label", "limit">>
      [] name = "temporal_pattern" ->
            <<"label", "relationship_type", "timestamp_property">>
      [] name = "recommendation" ->
            <<"label", "match_prop", "match_value", "through_relationship",
              "existing_relationship", "limit">>
      [] name = "graph_metrics" -> <<"label", "relationship", "limit">>

\* QUERY_TEMPLATES.items(): the standard templates, then the analytics ones
TemplateOrder ==
    <<"entity_search", "graph_analytics", "temporal_pattern", "recommendation",
      "graph_metrics">>

\* a Tool descriptor: its name and the properties and required names of its
\* input schema
Tool(name, properties, required) ==
    [name |-> name, properties |-> properties, required |-> required]

\* the descriptors of the core operation tools, with the fields of their
\* input models
CoreDescriptors ==
    <<Tool(<<"store-facts">>, {"context", "facts"}, <<"facts">>),
      Tool(<<"query-knowledge">>, {"context"}, <<>>),
      Tool(<<"find-connections">>, {"concept_a", "concept_b", "max_depth"},
           <<"concept_a", "concept_b">>),
      Tool(CypherTool,
           {"query", "parameters", "description", "expected_result_type",
            "template_name"},
           <<"query", "description", "expected_result_type">>)>>

\* ResourceHandler.list_tools: the core tools, then one tool per entry of
\* QUERY_TEMPLATES
ListTools ==
    CoreDescriptors \o
    [i \in 1..Len(TemplateOrder) |->
        LET params == ParameterDescriptions(TemplateOrder[i])
        IN Tool(TemplateTool(TemplateOrder[i]),
                {params[k] : k \in 1..Len(params)}, params)]

CallListTools ==
    EnterAndFinish([NoCall EXCEPT !.kind = "list_tools"], Returned(ListTools))

(***************************************************************************)
(* The resource catalogs, resources/__init__.py: each is a dict with the   *)
(* one key "contents"; an entry is written as its URI or URI template.     *)
(***************************************************************************)
RESOURCES ==
    [contents |-> <<"neo4j://schema/nodes", "neo4j://schema/relationships",
                    "neo4j://schema/indexes", "neo4j://queries/slow",
                    "neo4j://stats/memory", "neo4j://stats/transactions",
                    "neo4j://labels/count">>]
RESOURCE_TEMPLATES ==
    [contents |-> <<"neo4j://nodes/{/label}/count",
                    "neo4j://relationships/{/type}/count",
                    "neo4j://queries/active/{/queryId}">>]
TEMPLATE_RESOURCES ==
    [contents |-> <<"neo4j://templates/queries", "neo4j://templates/schemas",
                    "neo4j://templates/analytics",
                    "neo4j://templates/recommendations">>]
TEMPLATE_RESOURCE_TEMPLATES ==
    [contents |-> <<"neo4j://templates/queries/{/category}",
                    "neo4j://templates/schemas/{/domain}">>]

\* {**a, **b}: the keys of both, a key of b carrying b's value
DictMerge(a, b) ==
    [k \in DOMAIN a \cup DOMAIN b |-> IF k \in DOMAIN b THEN b[k] ELSE a[k]]

\* ResourceHandler.__init__: self._resources and self._resource_templates
HandlerResources == DictMerge(RESOURCES, TEMPLATE_RESOURCES)
HandlerResourceTemplates == DictMerge(RESOURCE_TEMPLATES, TEMPLATE_RESOURCE_TEMPLATES)

\* ResourceHandler.list_resources
CallListResources ==
    EnterAndFinish([NoCall EXCEPT !.kind = "list_resources"],
                   Returned(HandlerResources["contents"]))

\* ResourceHandler.list_resource_templates
CallListResourceTemplates ==
    EnterAndFinish([NoCall EXCEPT !.kind = "list_resource_templates"],
                   Returned(HandlerResourceTemplates["contents"]))

CallInitialize ==
    Enter([NoCall EXCEPT !.kind = "initialize"], "init_session")

\* the caller takes the outcome; the next call starts from scratch
Return ==
    /\ pc = "done"
    /\ pc' = "idle"
    /\ call' = NoCall
    /\ snapshot' = <<>>
    /\ plan' = <<>>
    /\ issues' = <<>>
    /\ final' = <<>>
    /\ rows' = <<>>
    /\ stats' = "none"
    /\ result' = NoResult
    /\ trace' = <<>>
    /\ UNCHANGED <<sessions, textVars, concVars, graphVars>>

Next ==
    \/ CallGetCurrentSchema
    \/ \E q \in ValidatorQueries, ls \in SUBSET Labels, rs \in SUBSET RelTypes :
          CallValidateTemplateCompatibility(q, ls, rs)
    \/ \E q \in ValidatorQueries, s \in Schemas \cup {MalformedSchema} :
          CallValidateQueryAgainstSchema(q, s)
    \/ \E n \in TemplateNames \cup {"invalid"}, a \in ExecuteParameters,
          c \in CallCustomizations :
          CallExecuteTemplate(n, a, c)
    \/ \E n \in ToolNames, a \in CoreArguments \cup TemplateArguments :
          CallHandleCallTool(n, a)
    \/ \E n \in ToolNames, a \in CoreArguments : CallServerTool(n, a)
    \/ \E n \in TemplateNames \cup {"invalid"}, a \in ValidateParameters :
          CallValidateTemplate(n, a)
    \/ CallInitialize
    \/ CallListTools
    \/ CallListResources
    \/ CallListResourceTemplates
    \/ \E ls \in SUBSET Labels, rs \in SUBSET RelTypes, ixs \in NewIndexSets :
          CallValidateSchemaChanges(ls, rs, ixs)
    \/ GcsSession \/ GcsNodes \/ GcsRels
    \/ VtcCheck
    \/ VscCheck \/ VscSession \/ VscIndexes
    \/ VqSession \/ VqExplain
    \/ EtSession \/ EtRun \/ EtConsume \/ EtData
    \/ HtCheck \/ HtSession \/ HtRun
    \/ HGraph \/ HCypher
    \/ StValidate \/ StHandler
    \/ InitSession \/ InitPing
    \/ Return

Spec == Init /\ [][Next]_vars

(***************************************************************************)
(* The text specification: the customization functions applied, one after  *)
(* the other, to a base query text.                                        *)
(***************************************************************************)
TextInit ==
    /\ CallIdle
    /\ ConcIdle
    /\ GraphIdle
    /\ tbase \in BaseQueries
    /\ ttext = tbase
    /\ tapplied = <<>>

TApplyAdditionalWhere(w) ==
    /\ Len(tapplied) < MaxApply
    /\ ttext' = ApplyAdditionalWhere(ttext, w)
    /\ tapplied' = Append(tapplied, [key |-> "additional_where", limit |-> 0])
    /\ UNCHANGED <<tbase, callVars, concVars, graphVars>>

TApplyOrderBy(o) ==
    /\ Len(tapplied) < MaxApply
    /\ ttext' = ApplyOrderBy(ttext, o)
    /\ tapplied' = Append(tapplied, [key |-> "order_by", limit |-> 0])
    /\ UNCHANGED <<tbase, callVars, concVars, graphVars>>

TApplyLimit(v) ==
    /\ Len(tapplied) < MaxApply
    /\ ttext' = ApplyLimit(ttext, v)
    /\ tapplied' = Append(tapplied, [key |-> "limit", limit |-> v])
    /\ UNCHANGED <<tbase, callVars, concVars, graphVars>>

\* the whole customization block of execute_template on the base text
TCustomize(c) ==
    /\ tapplied = <<>>
    /\ ttext' = Customize(tbase, c)
    /\ tapplied' = <<[key |-> "customizations", limit |-> 0, customizations |-> c]>>
    /\ UNCHANGED <<tbase, callVars, concVars, graphVars>>

TextNext ==
    \/ \E w \in WhereClauses : TApplyAdditionalWhere(w)
    \/ \E o \in OrderByClauses : TApplyOrderBy(o)
    \/ \E v \in LimitValues : TApplyLimit(v)
    \/ \E c \in TextCustomizations : TCustomize(c)

TextSpec == TextInit /\ [][TextNext]_vars

(***************************************************************************)
(* The concurrent specification: tool calls running side by side on the    *)
(* shared driver.  A call is the sequence of its awaits on the database;   *)
(* any other call may run between two of them.  The data the database      *)
(* returns is left out: only the sessions are followed.                    *)
(***************************************************************************)
ConcKinds == {"execute_template", "store_facts"}

\* the first await of a call
FirstStep(kind) == IF kind = "store_facts" THEN "sf_session" ELSE "gcs_session"

\* the `async with self.driver.session() as session` statements, each with
\* the first statement of its block
SessionStatements ==
    [gcs_session |-> "gcs_nodes", vq_session |-> "vq_explain",
     et_session |-> "et_run", sf_session |-> "sf_begin"]

\* the awaits inside the session blocks
ScopeStatements ==
    {"gcs_nodes", "gcs_rels", "vq_explain", "et_run", "et_consume", "et_data",
     "sf_begin", "sf_run", "sf_commit"}

\* control stays in the block, or leaves it (and __aexit__ closes the session)
Goes(to) == [to |-> to, exit |-> FALSE]
Leaves(to) == [to |-> to, exit |-> TRUE]

\* session blocks whose exceptions leave the function without closing
ScopeStepLeaking(at, ok) ==
    CASE at = "gcs_nodes" -> IF ok THEN Goes("gcs_rels") ELSE Goes("raise")
      [] at = "gcs_rels" -> IF ok THEN Leaves("vq_session") ELSE Goes("raise")
      [] at = "vq_explain" -> Leaves("et_session")
      [] at = "et_run" -> IF ok THEN Goes("et_consume") ELSE Goes("raise")
      [] at = "et_consume" -> Goes("et_data")
      [] at = "et_data" -> IF ok THEN Leaves("return") ELSE Goes("raise")
      [] at = "sf_begin" -> IF ok THEN Goes("sf_run") ELSE Goes("raise")
      [] at = "sf_run" -> IF ok THEN Goes("sf_commit") ELSE Goes("raise")
      [] at = "sf_commit" -> IF ok THEN Leaves("return") ELSE Goes("raise")

\* where an await inside a session block leads when it succeeds and when it
\* raises: get_current_schema has no except clause, the try block of
\* validate_query_against_schema turns the exception into a warning inside
\* the session block, execute_template ignores a failed consume() and
\* re-raises the rest, _store_facts has no except clause
ScopeStep(at, ok) ==
    CASE at = "gcs_nodes" -> IF ok THEN Goes("gcs_rels") ELSE Leaves("raise")
      [] at = "gcs_rels" -> IF ok THEN Leaves("vq_session") ELSE Leaves("raise")
      [] at = "vq_explain" -> Leaves("et_session")
      [] at = "et_run" -> IF ok THEN Goes("et_consume") ELSE Leaves("raise")
      [] at = "et_consume" -> Goes("et_data")
      [] at = "et_data" -> IF ok THEN Leaves("return") ELSE Leaves("raise")
      [] at = "sf_begin" -> IF ok THEN Goes("sf_run") ELSE Leaves("raise")
      [] at = "sf_run" -> IF ok THEN Goes("sf_commit") ELSE Leaves("raise")
      [] at = "sf_commit" -> IF ok THEN Leaves("return") ELSE Leaves("raise")

\* the session a call's statements run on: the local name `session` its
\* own `async with` has bound
SessionOf(p) == <<p, cstate[p].session>>

LogEntry(session, by, op) == [session |-> session, by |-> by, op |-> op]

\* the call ends, or goes on at the next statement
Continue(p, base, to) ==
    IF to \in {"return", "raise"}
    THEN [base EXCEPT !.pc = "done", !.outcome = to]
    ELSE [base EXCEPT !.pc = to]

\* a tool call starts
CStart(p, kind) ==
    /\ cstate[p].pc = "idle"
    /\ cstate' = [cstate EXCEPT ![p] = [@ EXCEPT !.kind = kind, !.pc = FirstStep(kind)]]
    /\ UNCHANGED <<live, log, callVars, textVars, graphVars>>

\* self.driver.session() and __aenter__: a new session, or an exception
\* that ends the call
COpen(p) ==
    /\ cstate[p].pc \in DOMAIN SessionStatements
    /\ \/ LET k == cstate[p].opened + 1 IN
            /\ cstate' = [cstate EXCEPT ![p] =
                              [@ EXCEPT !.session = k, !.opened = k,
                                        !.pc = SessionStatements[cstate[p].pc]]]
            /\ live' = live \cup {<<p, k>>}
            /\ log' = log \cup {LogEntry(<<p, k>>, p, "open")}
       \/ /\ cstate' = [cstate EXCEPT ![p] = Continue(p, @, "raise")]
          /\ UNCHANGED <<live, log>>
    /\ UNCHANGED <<callVars, textVars, graphVars>>

\* an await on the session (run, consume, data, begin_transaction, commit)
CUse(p) ==
    /\ cstate[p].pc \in ScopeStatements
    /\ \E ok \in BOOLEAN :
          LET step == ScopeStep(cstate[p].pc, ok) IN
          cstate' = [cstate EXCEPT ![p] =
                        IF step.exit
                        THEN [@ EXCEPT !.pc = "closing", !.after = step.to]
                        ELSE Continue(p, @, step.to)]
    /\ log' = log \cup {LogEntry(SessionOf(p), p, "use")}
    /\ UNCHANGED <<live, callVars, textVars, graphVars>>

\* __aexit__ of the session block: the session is closed, then the call
\* goes on, returns or raises
CClose(p) ==
    /\ cstate[p].pc = "closing"
    /\ live' = live \ {SessionOf(p)}
    /\ log' = log \cup {LogEntry(SessionOf(p), p, "close")}
    /\ cstate' = [cstate EXCEPT ![p] =
                      Continue(p, [@ EXCEPT !.session = NoSession, !.after = "none"],
                               cstate[p].after)]
    /\ UNCHANGED <<callVars, textVars, graphVars>>

ConcNext ==
    \E p \in Callers :
        \/ \E kind \in ConcKinds : CStart(p, kind)
        \/ COpen(p)
        \/ CUse(p)
        \/ CClose(p)

ConcSpec == Init /\ [][ConcNext]_vars

(***************************************************************************)
(* The knowledge-graph specification: store_facts and query_knowledge of   *)
(* server.py (and _store_facts of ResourceHandler) against one database.   *)
(* A transaction's writes are pending until its commit; a read sees what   *)
(* has been committed.                                                     *)
(***************************************************************************)
\* the relationship CREATE (s)-[r:RELATES {type, context, created_at}]->(o)
\* makes; id tells the relationships of the database apart
Relationship(id, fact, context) ==
    [id |-> id, from |-> fact.subject, type |-> fact.predicate, to |-> fact.object,
     context |-> context]

\* RETURN {subject: s.name, predicate: r.type, object: o.name} as fact
FactRow(r) == [fact |-> [subject |-> r.from, predicate |-> r.type, object |-> r.to]]

\* a stored_facts that grows at the front
CollectedInFront(stored_facts, fact_data) ==
    <<Fact(fact_data.fact.subject, fact_data.fact.predicate, fact_data.fact.object)>>
        \o stored_facts

\* stored_facts.append(Fact(subject=fact_data["fact"]["subject"], ...))
Collected(stored_facts, fact_data) ==
    Append(stored_facts,
           Fact(fact_data.fact.subject, fact_data.fact.predicate, fact_data.fact.object))

\* a commit that replaces the contents of the database by its own writes
CommittedOverwriting(g, tx) == tx

\* tx.commit(): the pending writes join the committed ones
Committed(g, tx) ==
    [contexts |-> g.contexts \cup tx.contexts,
     relations |-> g.relations \cup tx.relations]

StoreFactsResponse(stored_facts, context) ==
    [stored_facts |-> stored_facts, context |-> context,
     total_stored |-> Len(stored_facts)]

\* MATCH p=(s:Entity)-[r:RELATES]->(o:Entity) {context_filter}: the filter
\* is part of the query text only `if args.context`
MatchedRelationships(g, context) ==
    IF Truthy(context)
    THEN {r \in g.relations : r.context = context[1]}
    ELSE g.relations

\* Entity(name, type), with coalesce(s.type, 'Entity') of a node that has no
\* type property
Entity(name) == [name |-> name, type |-> "Entity"]

\* the Relation built from a row; row names the relationship it came from
Relation(r) ==
    [row |-> r.id, from_entity |-> Entity(r.from), to_entity |-> Entity(r.to),
     relation_type |-> r.type, context |-> r.context]

\* QueryResponse of server.py; relations is the list as a set, one Relation
\* per row
KnowledgeResponse(relations, context) ==
    [relations |-> relations, context |-> context,
     total_found |-> Cardinality(relations)]

\* an exception raised by the statement `at` leaves the `async with` blocks
\* and the function: the transaction is rolled back, the arguments and the
\* locals are gone, and the call ends with the exception
GraphRaise(p, exc, at) ==
    gstate' = [gstate EXCEPT ![p] =
                  [IdleGraphCaller EXCEPT !.pc = "done", !.kind = gstate[p].kind,
                                          !.result = Raised(exc, <<at>>)]]

\* _store_facts: context, stored_facts
SfStart(p, kind, context, facts) ==
    /\ gstate[p].pc = "idle"
    /\ gstate' = [gstate EXCEPT ![p] =
                      [@ EXCEPT !.pc = "sf_begin", !.kind = kind,
                                !.args = [context |-> context, facts |-> facts],
                                !.context = IF IsNotNone(context) THEN context[1]
                                            ELSE "default"]]
    /\ UNCHANGED <<graph, callVars, textVars, concVars>>

\* self.driver.session() and session.begin_transaction()
SfBegin(p) ==
    /\ gstate[p].pc = "sf_begin"
    /\ \/ gstate' = [gstate EXCEPT ![p] = [@ EXCEPT !.pc = "sf_context"]]
       \/ GraphRaise(p, "ServiceUnavailable", "begin_transaction")
    /\ UNCHANGED <<graph, callVars, textVars, concVars>>

\* self._ensure_context_schema(context, tx): MERGE (c:Context {name: $context}).
\* ResourceHandler has no method of that name.
SfEnsureContext(p) ==
    /\ gstate[p].pc = "sf_context"
    /\ IF gstate[p].kind = "handler_store_facts"
       THEN GraphRaise(p, "AttributeError", "ensure_context_schema")
       ELSE \/ gstate' = [gstate EXCEPT ![p] =
                    [@ EXCEPT !.pc = IF Len(gstate[p].args.facts) = 0 THEN "sf_commit"
                                     ELSE "sf_fact",
                              !.tx = [@ EXCEPT !.contexts =
                                          @ \cup {gstate[p].context}]]]
            \/ GraphRaise(p, "Neo4jError", "ensure_context_schema")
    /\ UNCHANGED <<graph, callVars, textVars, concVars>>

\* a loop body that writes outside the transaction
SfFactAutoCommit(p) ==
    /\ gstate[p].pc = "sf_fact"
    /\ LET i == gstate[p].next
           r == Relationship(<<p, i>>, gstate[p].args.facts[i], gstate[p].context)
       IN \/ /\ gstate' = [gstate EXCEPT ![p] =
                    [@ EXCEPT !.pc = IF i = Len(gstate[p].args.facts) THEN "sf_commit"
                                     ELSE "sf_fact",
                              !.next = i + 1,
                              !.stored_facts = Collected(@, FactRow(r))]]
             /\ graph' = [graph EXCEPT !.relations = @ \cup {r}]
          \/ GraphRaise(p, "Neo4jError", "run") /\ UNCHANGED graph
    /\ UNCHANGED <<callVars, textVars, concVars>>

\* one turn of `for fact in args.facts`: tx.run of the CREATE statement,
\* result.single() (the statement returns one row), stored_facts.append
SfFact(p) ==
    /\ gstate[p].pc = "sf_fact"
    /\ LET i == gstate[p].next
           r == Relationship(<<p, i>>, gstate[p].args.facts[i], gstate[p].context)
       IN \/ gstate' = [gstate EXCEPT ![p] =
                    [@ EXCEPT !.pc = IF i = Len(gstate[p].args.facts) THEN "sf_commit"
                                     ELSE "sf_fact",
                              !.next = i + 1,
                              !.tx = [@ EXCEPT !.relations = @ \cup {r}],
                              !.stored_facts = Collected(@, FactRow(r))]]
          \/ GraphRaise(p, "Neo4jError", "run")
    /\ UNCHANGED <<graph, callVars, textVars, concVars>>

\* tx.commit(), the end of the two blocks and the response
SfCommit(p) ==
    /\ gstate[p].pc = "sf_commit"
    /\ \/ /\ graph' = Committed(graph, gstate[p].tx)
          /\ gstate' = [gstate EXCEPT ![p] =
                 [@ EXCEPT !.pc = "done", !.tx = EmptyGraph,
                           !.result = Returned(StoreFactsResponse(
                                                 gstate[p].stored_facts,
                                                 gstate[p].context))]]
       \/ GraphRaise(p, "Neo4jError", "commit") /\ UNCHANGED graph
    /\ UNCHANGED <<callVars, textVars, concVars>>

\* _query_knowledge
QkStart(p, context) ==
    /\ gstate[p].pc = "idle"
    /\ gstate' = [gstate EXCEPT ![p] =
                      [@ EXCEPT !.pc = "qk_session", !.kind = "query_knowledge",
                                !.args = [context |-> context, facts |-> <<>>]]]
    /\ UNCHANGED <<graph, callVars, textVars, concVars>>

\* self.driver.session()
QkSession(p) ==
    /\ gstate[p].pc = "qk_session"
    /\ \/ gstate' = [gstate EXCEPT ![p] = [@ EXCEPT !.pc = "qk_run"]]
       \/ GraphRaise(p, "ServiceUnavailable", "session")
    /\ UNCHANGED <<graph, callVars, textVars, concVars>>

\* session.run(query, {"context": args.context}), result.data() and the
\* response
QkRun(p) ==
    /\ gstate[p].pc = "qk_run"
    /\ \/ LET data == MatchedRelationships(graph, gstate[p].args.context) IN
          gstate' = [gstate EXCEPT ![p] =
                [@ EXCEPT !.pc = "done",
                          !.result = Returned(KnowledgeResponse(
                                         {Relation(r) : r \in data},
                                         gstate[p].args.context))]]
       \/ GraphRaise(p, "Neo4jError", "run")
    /\ UNCHANGED <<graph, callVars, textVars, concVars>>

\* the caller of query_knowledge takes the response and may call again
QkReturn(p) ==
    /\ gstate[p].pc = "done"
    /\ gstate' = [gstate EXCEPT ![p] = IdleGraphCaller]
    /\ UNCHANGED <<graph, callVars, textVars, concVars>>

\* the store calls: _store_facts of the server with every argument, and
\* _store_facts of ResourceHandler
StoreCalls ==
    [kind : {"store_facts"}, context : StoreContexts, facts : FactLists]
        \cup {[kind |-> "handler_store_facts", context |-> Some("a"),
                facts |-> <<F_knows>>]}

GraphNext ==
    \/ \E p \in Stores :
          \/ \E c \in StoreCalls : SfStart(p, c.kind, c.context, c.facts)
          \/ SfBegin(p)
          \/ SfEnsureContext(p)
          \/ SfFact(p)
          \/ SfCommit(p)
    \/ \E c \in QueryContexts : QkStart(Query, c)
    \/ QkSession(Query)
    \/ QkRun(Query)
    \/ QkReturn(Query)

GraphSpec == Init /\ [][GraphNext]_vars

(***************************************************************************)
(* Claims about the customizations.                                        *)
(***************************************************************************)
\* the text from the first ORDER BY on, up to (not including) the next
\* newline or LIMIT keyword: the ordering expression of the query
OrderByExpr(q) ==
    LET i == Find(q, KW_ORDER_BY) + Len(KW_ORDER_BY) + 1
        ends == {j \in i..Len(q) : q[j] \in {"\n", "LIMIT"}}
        e == IF ends = {} THEN Len(q) + 1
             ELSE CHOOSE j \in ends : \A k \in ends : j <= k
    IN SubSeq(q, i, e - 1)

\* the text from the first LIMIT keyword to the end
LimitTail(q) == SubSeq(q, Find(q, KW_LIMIT), Len(q))

\* the base text has an ORDER BY clause followed by a LIMIT clause
OrderByThenLimit(q) ==
    /\ Contains(q, KW_ORDER_BY)
    /\ Contains(q, KW_LIMIT)
    /\ Find(q, KW_ORDER_BY) < Find(q, KW_LIMIT)

\* C4: order_by applied to a text that has ORDER BY followed by LIMIT leaves
\* a text whose ORDER BY clause is the supplied expression and whose LIMIT
\* clause is the one of the base text.
C4_OrderByKeepsLimit ==
    (/\ Len(tapplied) = 1
     /\ tapplied[1].key = "order_by"
     /\ OrderByThenLimit(tbase))
    => /\ Contains(ttext, KW_ORDER_BY)
       /\ \E o \in OrderByClauses :
             StartsWith(OrderByExpr(ttext), o)
       /\ Contains(ttext, KW_LIMIT)
       /\ LimitTail(ttext) = LimitTail(tbase)

\* every customization applied so far is the limit customization with value v
OnlyLimit(v) ==
    /\ Len(tapplied) >= 1
    /\ \A i \in 1..Len(tapplied) :
          tapplied[i].key = "limit" /\ tapplied[i].limit = v

\* C5: {limit: v} applied to a text without LIMIT appends exactly one
\* `LIMIT v` and changes nothing else, and applying it again to the
\* customized text yields the same text.
C5_LimitAppendIdempotent ==
    \A v \in LimitValues :
        (~Contains(tbase, KW_LIMIT) /\ OnlyLimit(v))
        => /\ ttext = tbase \o <<"\n">> \o LimitClause(v)
           /\ Count(ttext, KW_LIMIT) = 1

\* the limit customization was applied twice to a text without LIMIT
C5_Witness ==
    /\ ~Contains(tbase, KW_LIMIT)
    /\ Len(tapplied) = 2
    /\ OnlyLimit(tapplied[1].limit)

\* exactly one customization function was applied to the base text
SingleStep(key) == Len(tapplied) = 1 /\ tapplied[1].key = key

\* C25: additional_where applied to a text that contains WHERE inserts the
\* clause, followed by AND, once, right after the first WHERE, and leaves
\* the rest of the text as it was, whatever the number of WHERE keywords.
C25_WhereConjoinedOnce ==
    (SingleStep("additional_where") /\ Contains(tbase, KW_WHERE))
    => \E w \in WhereClauses :
          LET i == Find(tbase, KW_WHERE) IN
          /\ ttext = SubSeq(tbase, 1, i) \o <<" ">> \o w \o <<" ", "AND">>
                        \o SubSeq(tbase, i + 1, Len(tbase))
          /\ Count(ttext, w) = 1

\* the number of "(" minus the number of ")" among the first j tokens
Depth(q, j) ==
    Cardinality({k \in 1..j : q[k] = "("}) - Cardinality({k \in 1..j : q[k] = ")"})

\* the position of the first ")" that closes a group opened at depth 0, or 0
BalancedClose(q) ==
    LET closes == {j \in 1..Len(q) : q[j] = ")" /\ Depth(q, j) = 0} IN
    IF closes = {} THEN 0
    ELSE CHOOSE j \in closes : \A k \in closes : j <= k

\* C26: additional_where applied to a text without WHERE inserts
\* "WHERE <clause>" right after the first balanced closing parenthesis, and
\* the clause is always part of the customized text.
C26_WhereAfterBalancedParen ==
    (SingleStep("additional_where") /\ ~Contains(tbase, KW_WHERE))
    => \E w \in WhereClauses :
          LET j == BalancedClose(tbase) IN
          /\ Contains(ttext, w)
          /\ j # 0
          /\ ttext = SubSeq(tbase, 1, j) \o <<"\n", "WHERE", " ">> \o w
                        \o SubSeq(tbase, j + 1, Len(tbase))

\* C27: limit applied to a text that has "LIMIT N" puts "LIMIT <value>" in
\* the place of "LIMIT N", leaves the text before and after it as it was,
\* and the customized text has exactly one LIMIT.
C27_LimitReplacedInPlace ==
    (SingleStep("limit") /\ Contains(tbase, KW_LIMIT))
    => LET i == Find(tbase, KW_LIMIT) IN
       /\ ttext = SubSeq(tbase, 1, i - 1) \o LimitClause(tapplied[1].limit)
                     \o SubSeq(tbase, i + Len(LimitClause(0)), Len(tbase))
       /\ Count(ttext, KW_LIMIT) = 1

\* the base text after the additional_where step of a mapping
AfterWhere(c) ==
    IF "additional_where" \in c.keys
    THEN ApplyAdditionalWhere(tbase, c.additional_where)
    ELSE tbase

\* C24: the customizations of one mapping are applied in the order
\* additional_where, order_by, limit, and a later one does not undo or alter
\* the effect of an earlier one: the WHERE clause inserted by the first step
\* is in the final text as often as that step inserted it, and the ORDER BY
\* expression written by the second step is in the final text.
C24_LaterStepsKeepEarlierEffects ==
    SingleStep("customizations")
    => LET c == tapplied[1].customizations IN
       /\ "additional_where" \in c.keys
            => Count(ttext, c.additional_where)
                  = Count(AfterWhere(c), c.additional_where)
       /\ "order_by" \in c.keys
            => Contains(ttext, KW_ORDER_BY \o <<" ">> \o c.order_by)

(***************************************************************************)
(* Claims about the calls.                                                 *)
(***************************************************************************)
InTrace(e) == \E i \in 1..Len(trace) : trace[i] = e

Done(kind) == pc = "done" /\ call.kind = kind

ToolCallKinds == {"handle_call_tool", "server_call_tool"}

\* the compatibility check of the call in progress has found issues
CompatibilityIssuesFound ==
    /\ call.kind = "execute_template"
    /\ pc \in {"et_session", "et_run", "et_consume", "et_data", "done"}
    /\ issues # <<>>

\* C1: a template whose dry-validation fails is rejected: execute on its
\* name fails with TemplateRejected and the template's query is not run.
C1_RejectedTemplateNotRun ==
    CompatibilityIssuesFound
    => /\ ~InTrace("run_template")
       /\ (pc = "done" => result.kind = "raise" /\ result.exc = "TemplateRejected")

\* a content block that carries a structured error of the given kind
IsErrorBlock(block) ==
    /\ block.type = "text"
    /\ DOMAIN block.text = {"error", "details"}

\* C2: a tool call with a name that is no recognized tool returns an error
\* envelope saying the tool is unknown; it never raises.
C2_UnknownToolEnvelope ==
    (/\ pc = "done"
     /\ call.kind \in ToolCallKinds
     /\ call.name \in UnknownTools)
    => /\ result.kind = "return"
       /\ Len(result.value) = 1
       /\ IsErrorBlock(result.value[1])
       /\ StartsWith(result.value[1].text.details, <<"Unknown tool">>)

\* C3: every tool call returns exactly one well-formed text block, carrying
\* the result or a structured error; no exception crosses the boundary.
C3_AlwaysOneBlock ==
    (pc = "done" /\ call.kind \in ToolCallKinds)
    => /\ result.kind = "return"
       /\ Len(result.value) = 1
       /\ result.value[1].type = "text"
       /\ DOMAIN result.value[1].text \in {{"result"}, {"error", "details"}}

\* validate_template_compatibility has returned for a live schema whose
\* labels are {A} and required labels {A, B}
C6_Case ==
    /\ Done("validate_template_compatibility")
    /\ result.kind = "return"
    /\ SchemaLabels(snapshot[1]) = {"A"}
    /\ call.required_labels = {"A", "B"}

IsMissingLabelsIssue(issue) == StartsWith(issue, MSG_MISSING_LABELS)
IsMissingRelsIssue(issue) == StartsWith(issue, MSG_MISSING_RELS)
IsQueryWarning(issue) == StartsWith(issue, MSG_PREFIX)

\* C6 as stated: exactly one issue is returned, naming B and not A.
C6_ExactlyOneIssue ==
    C6_Case
    => /\ Len(result.value) = 1
       /\ Contains(result.value[1], <<"B">>)
       /\ ~Contains(result.value[1], <<"A">>)

\* C6 as amended: exactly one missing-labels issue is returned, the first of
\* the list, naming B and not A; every other issue returned is a
\* missing-relationship-types issue or a prefixed query warning, and when
\* there is neither the list has that one issue.
C6_OneMissingLabelsIssue ==
    C6_Case
    => /\ Len(result.value) >= 1
       /\ IsMissingLabelsIssue(result.value[1])
       /\ Contains(result.value[1], <<"B">>)
       /\ ~Contains(result.value[1], <<"A">>)
       /\ \A i \in 2..Len(result.value) :
             /\ ~IsMissingLabelsIssue(result.value[i])
             /\ IsMissingRelsIssue(result.value[i]) \/ IsQueryWarning(result.value[i])
       /\ (/\ call.required_relationship_types \subseteq SchemaRelTypes(snapshot[1])
           /\ plan # <<>>
           /\ AnalysePlan(plan[1], snapshot[1]) = <<>>)
          => Len(result.value) = 1

C6_Witness ==
    /\ C6_Case
    /\ Len(result.value) = 1

\* C7: with no required labels and no required relationship types, every
\* issue validate_template_compatibility returns is a prefixed query
\* warning: none reports missing labels or relationship types.
C7_EmptyRequirementsOnlyWarnings ==
    (/\ Done("validate_template_compatibility")
     /\ result.kind = "return"
     /\ call.required_labels = {}
     /\ call.required_relationship_types = {})
    => \A i \in 1..Len(result.value) :
          /\ IsQueryWarning(result.value[i])
          /\ ~IsMissingLabelsIssue(result.value[i])
          /\ ~IsMissingRelsIssue(result.value[i])

\* empty requirements, a schema without labels, and query warnings returned
C7_Witness ==
    /\ Done("validate_template_compatibility")
    /\ result.kind = "return"
    /\ call.required_labels = {}
    /\ call.required_relationship_types = {}
    /\ SchemaLabels(snapshot[1]) = {}
    /\ Len(result.value) >= 2

\* C8: validate_query_against_schema always returns a list of warnings and
\* never raises.
C8_NeverRaises ==
    Done("validate_query_against_schema") => result.kind = "return"

\* every node of a plan tree, the root included
RECURSIVE SubPlans(_)
SubPlans(p) ==
    {p} \cup UNION {SubPlans(p.children[i]) : i \in 1..Len(p.children)}

HasLabelScanNode(p) == \E n \in SubPlans(p) : n.operatorType = "NodeByLabelScan"

HasLabelScanWarning(ws) ==
    \E i \in 1..Len(ws) : Contains(ws[i], <<"label", " ", "scan">>)

\* C9: validate_query_against_schema returns a warning with the text
\* "label scan" exactly when some node of the plan, at any depth, has the
\* operator NodeByLabelScan; without a plan it returns no such warning.
C9_LabelScanWarning ==
    (Done("validate_query_against_schema") /\ result.kind = "return")
    => IF plan # <<>>
       THEN HasLabelScanWarning(result.value) <=> HasLabelScanNode(plan[1])
       ELSE ~HasLabelScanWarning(result.value)

\* the scan is below the root of the plan and the warning is returned
C9_Witness ==
    /\ Done("validate_query_against_schema")
    /\ result.kind = "return"
    /\ plan = <<P_DeepScan>>
    /\ HasLabelScanWarning(result.value)

\* the schema fetch of the call has failed: the session could not be opened,
\* or one of the two metadata queries raised
FetchFailed ==
    /\ call.kind \in {"get_current_schema", "validate_template_compatibility",
                      "execute_template"}
    /\ \/ trace = <<"open_failed">>
       \/ InTrace("run_node_schema_failed")
       \/ InTrace("run_rel_schema_failed")

\* C10: a failed schema fetch ends get_current_schema,
\* validate_template_compatibility and execute_template with the database's
\* exception, and the template query is not run.
C10_FetchFailurePropagates ==
    FetchFailed
    => /\ pc = "done"
       /\ result.kind = "raise"
       /\ result.exc \in {"ServiceUnavailable", "Neo4jError"}
       /\ snapshot = <<>>
       /\ ~InTrace("run_template")
       /\ ~InTrace("explain")

\* execute_template ended by a failed metadata query
C10_Witness ==
    /\ Done("execute_template")
    /\ InTrace("run_rel_schema_failed")
    /\ result.kind = "raise"

(***************************************************************************)
(* Claims about execute_template.                                          *)
(***************************************************************************)
\* the exceptions the database driver raises
DatabaseErrors == {"ServiceUnavailable", "Neo4jError", "ResultConsumedError"}

\* the database operations of an execute_template call up to the return of
\* its compatibility check: the schema fetch, then the EXPLAIN session
FetchSteps == <<"open", "run_node_schema", "run_rel_schema">>
ValidationSteps == Len(FetchSteps) + 2

\* C11: in execute_template a non-empty list of compatibility issues does
\* not prevent execution: the call goes on to open the execution session
\* and run the query, an exception that ends it is the database's and not
\* the issues', and the response it returns carries the issues as warnings.
C11_IssuesNeverPreventExecution ==
    (/\ Done("execute_template")
     /\ issues # <<>>)
    => /\ Len(trace) > ValidationSteps
       /\ trace[ValidationSteps + 1] \in {"open", "open_failed"}
       /\ trace[ValidationSteps + 1] = "open"
          => InTrace("run_template") \/ InTrace("run_template_failed")
       /\ result.kind = "raise"
          => /\ result.exc \in DatabaseErrors
             /\ trace[Len(trace)] \in {"open_failed", "run_template_failed", "data_failed"}
       /\ result.kind = "return"
          => /\ InTrace("run_template")
             /\ result.value.warnings = issues

\* issues were found, the query was run and the response carries them
C11_Witness ==
    /\ Done("execute_template")
    /\ issues # <<>>
    /\ InTrace("run_template")
    /\ result.kind = "return"
    /\ result.value.warnings = issues
    /\ Len(issues) >= 2

\* the parameters of the rules the supplied values violate
ViolatedParameters(name, parameters) ==
    {ValidationRules(name)[i].param : i \in
        {j \in 1..Len(ValidationRules(name)) :
            RuleIssues(ValidationRules(name)[j], parameters) # <<>>}}

\* C12: execute_template checks the supplied parameters against the
\* template's validation rules before the query is sent: when a value
\* violates a rule, the query is sent only with the violation reported among
\* the call's warnings, naming the parameter.
C12_ParameterViolationsReported ==
    (/\ call.kind = "execute_template"
     /\ call.name[1] \in TemplateNames
     /\ ViolatedParameters(call.name[1], call.arguments) # {}
     /\ InTrace("run_template") \/ InTrace("run_template_failed"))
    => \E i \in 1..Len(issues) :
          \E param \in ViolatedParameters(call.name[1], call.arguments) :
             Contains(issues[i], <<param>>)

\* C13: the results of a successful execute_template are the rows the
\* database produced for the query, in order; collecting the statistics
\* from the same result loses none of them.
C13_ResultsAreDatabaseRows ==
    (Done("execute_template") /\ result.kind = "return")
    => /\ InTrace("run_template")
       /\ result.value.results = rows

\* the compatibility check of the call found nothing and the database has
\* run the template query
CompatibleAndRun ==
    /\ Done("execute_template")
    /\ call.name[1] \in TemplateNames
    /\ Len(trace) >= ValidationSteps
    /\ SubSeq(trace, 1, ValidationSteps) = FetchSteps \o <<"open", "explain">>
    /\ issues = <<>>
    /\ InTrace("run_template")

\* C14: for a known template that is compatible with the live schema and
\* whose plan draws no warning, execute_template returns a response with
\* template_used the requested name, warnings the empty list and results
\* the rows of the database.
C14_CompatibleTemplateResponse ==
    CompatibleAndRun
    => /\ result.kind = "return"
       /\ result.value.template_used = call.name[1]
       /\ result.value.warnings = <<>>
       /\ result.value.results = rows

\* C20: when the collection of the execution summary fails after the query
\* has run, execute_template still returns a response with the rows of the
\* query and without execution_stats.
C20_StatsBestEffort ==
    (Done("execute_template") /\ InTrace("consume_failed"))
    => /\ result.kind = "return"
       /\ result.value.results = rows
       /\ result.value.execution_stats = "none"


\* the positions of the trace that hold one of the given operations
Positions(ops) == {i \in 1..Len(trace) : trace[i] \in ops}

\* C18: within one execute_template call the schema fetch completes before
\* the EXPLAIN of the compatibility check starts, and the check completes
\* before the template query is sent; the query is never sent without the
\* schema fetch of the same call.
C18_FetchThenValidateThenRun ==
    call.kind = "execute_template"
    => /\ \A i \in Positions({"explain", "explain_failed"}) :
             /\ i = ValidationSteps
             /\ SubSeq(trace, 1, Len(FetchSteps)) = FetchSteps
             /\ trace[Len(FetchSteps) + 1] = "open"
             /\ snapshot # <<>>
       /\ \A i \in Positions({"run_template", "run_template_failed"}) :
             /\ i > ValidationSteps + 1
             /\ SubSeq(trace, 1, Len(FetchSteps)) = FetchSteps
             /\ trace[ValidationSteps] \in {"explain", "explain_failed"}
             /\ trace[ValidationSteps + 1] = "open"
             /\ snapshot # <<>>
       /\ pc \in {"et_session", "et_run", "et_consume", "et_data"}
          => Positions({"explain", "explain_failed"}) # {}

\* an execute_template call has fetched the schema, validated and run
C18_Witness ==
    /\ Done("execute_template")
    /\ Positions({"run_template"}) = {ValidationSteps + 2}
    /\ Positions({"explain"}) = {ValidationSteps}
    /\ result.kind = "return"
(***************************************************************************)
(* Claims about the tool facade.                                           *)
(***************************************************************************)
\* the templates the dry validation of initialize() has accepted:
\* ResourceHandler.initialize ends in AttributeError before it looks at a
\* template (InitPing) and no other code records a validated template
Loaded == {}

ListedNames == {result.value[i].name : i \in 1..Len(result.value)}

\* C15: list_tools returns one descriptor per core operation and exactly
\* one, named template.<name>, per Loaded template, no descriptor for a
\* template that is not Loaded, and each template tool's input schema has
\* exactly the parameter names the template declares.
C15_ListsLoadedTemplates ==
    (Done("list_tools") /\ result.kind = "return")
    => /\ ListedNames = CoreTools \cup {CypherTool} \cup {TemplateTool(n) : n \in Loaded}
       /\ Len(result.value) = Cardinality(ListedNames)
       /\ \A i \in 1..Len(result.value) :
             StartsWith(result.value[i].name, TemplatePrefix)
             => result.value[i].properties =
                   {ParameterDescriptions(result.value[i].name[3])[k] :
                       k \in 1..Len(ParameterDescriptions(result.value[i].name[3]))}

\* a template tool call that has got past the lookup of its template
FacadeTemplateCall ==
    /\ Done("handle_call_tool")
    /\ Route(call.name) = "template"
    /\ NamesTemplate(call.name)

\* C16: a template tool call has the outcome execute_template has for the
\* same template and parameters: after the compatibility check the query
\* is sent whatever the issues, a failure is the database's, and the
\* response carries the issues as warnings.
C16_FacadeOutcomeIsExecutors ==
    (FacadeTemplateCall /\ Len(trace) >= ValidationSteps)
    => /\ Len(trace) > ValidationSteps
       /\ Len(result.value) = 1
       /\ IF IsErrorBlock(result.value[1])
          THEN result.value[1].text.error \in DatabaseErrors
          ELSE /\ "warnings" \in DOMAIN result.value[1].text.result
               /\ result.value[1].text.result.warnings = issues

(***************************************************************************)
(* Claims about validate_schema_changes.                                   *)
(***************************************************************************)
SchemaChangesReturned ==
    /\ Done("validate_schema_changes")
    /\ result.kind = "return"

LabelConflict == call.new_labels \cap SchemaLabels(snapshot[1]) # {}
RelTypeConflict == call.new_relationship_types \cap SchemaRelTypes(snapshot[1]) # {}
IndexConflict ==
    \E i \in 1..Len(call.new_indexes), j \in 1..Len(rows) :
        /\ rows[j].labelsOrTypes = call.new_indexes[i].labels
        /\ rows[j].properties = call.new_indexes[i].properties

Reports(msg) == \E i \in 1..Len(result.value) : StartsWith(result.value[i], msg)

\* C19: validate_schema_changes returns the empty list exactly when no
\* proposed label is a label of the live schema, no proposed relationship
\* type exists already and no proposed index has the labels and properties
\* of an existing index; each kind of conflict present is reported.
C19_EmptyIffNoConflict ==
    SchemaChangesReturned
    => /\ (result.value = <<>>) <=> ~(LabelConflict \/ RelTypeConflict \/ IndexConflict)
       /\ LabelConflict <=> Reports(MSG_LABELS_EXIST)
       /\ RelTypeConflict <=> Reports(MSG_RELS_EXIST)
       /\ IndexConflict <=> Reports(MSG_INDEX_EXISTS)

\* the empty list returned for a proposed index that shares its labels, not
\* its properties, with an existing one
C19_Witness ==
    /\ SchemaChangesReturned
    /\ result.value = <<>>
    /\ call.new_labels # {}
    /\ \E i \in 1..Len(call.new_indexes), j \in 1..Len(rows) :
          rows[j].labelsOrTypes = call.new_indexes[i].labels

(***************************************************************************)
(* Claims about concurrent calls.                                          *)
(***************************************************************************)
AllReturned == \A p \in Callers : cstate[p].pc = "done"

\* C17: under every interleaving of concurrent calls, a session is opened,
\* used and closed by one call only, a call that has returned or raised
\* has no session open, a call holds at most the one session of the block
\* it is in, and once all calls have ended no session is open.
C17_SessionsScopedToCalls ==
    /\ \A e \in log : e.by = e.session[1]
    /\ \A s \in live : /\ cstate[s[1]].pc \notin {"idle", "done"}
                       /\ cstate[s[1]].session = s[2]
    /\ \A p \in Callers :
          cstate[p].pc = "done"
          => /\ cstate[p].session = NoSession
             /\ \A k \in 1..cstate[p].opened :
                   LogEntry(<<p, k>>, p, "close") \in log
    /\ AllReturned => live = {}

\* two calls have had sessions open at the same time, one has raised inside
\* a session block, and all have ended
C17_Witness ==
    /\ AllReturned
    /\ \E p \in Callers : cstate[p].outcome = "raise" /\ cstate[p].opened >= 1
    /\ \E p \in Callers : cstate[p].outcome = "return" /\ cstate[p].kind = "execute_template"
    /\ live = {}

\* an issue of validate_template about the value of a parameter
IsParameterIssue(issue, param) ==
    /\ Len(issue) >= 2
    /\ issue[1] \in {"Parameter '", "Invalid value for parameter '"}
    /\ issue[2] = param

\* the list validate_template returned has an issue about the parameter
ParameterReported(param) ==
    \E i \in 1..Len(result.value) : IsParameterIssue(result.value[i], param)

\* C28: for a rule "must be a positive integer less than or equal to N",
\* validate_template reports an issue about a supplied integer v exactly
\* when v <= 0 or v > N; for a rule of neither recognised form it reports no
\* issue about the parameter, whatever the value.
C28_NumericRuleBoundary ==
    (Done("validate_template") /\ result.kind = "return")
    => LET rules == ValidationRules(call.name[1]) IN
       \A k \in 1..Len(rules) :
          /\ (/\ rules[k].form = "positive_max"
              /\ rules[k].param \in call.arguments.keys
              /\ call.arguments[rules[k].param].isInt)
             => (ParameterReported(rules[k].param)
                   <=> \/ call.arguments[rules[k].param].int <= 0
                       \/ call.arguments[rules[k].param].int > rules[k].max)
          /\ rules[k].form = "other" => ~ParameterReported(rules[k].param)

\* validate_template returned for a limit equal to the bound of the rule
C28_Witness ==
    /\ Done("validate_template")
    /\ result.kind = "return"
    /\ call.name = <<"graph_analytics">>
    /\ "limit" \in call.arguments.keys
    /\ call.arguments.limit = IntValue(MaxLimitGraphAnalytics)
    /\ ~ParameterReported("limit")

\* the entries of a catalog
Entries(catalog) == {catalog.contents[i] : i \in 1..Len(catalog.contents)}

\* the entries of a returned listing
Listed == {result.value[i] : i \in 1..Len(result.value)}

\* C29: list_resources returns every entry of the standard and of the
\* template resource catalog, and list_resource_templates every entry of the
\* two resource-template catalogs.
C29_ListsBothCatalogs ==
    /\ Done("list_resources")
         => Entries(RESOURCES) \cup Entries(TEMPLATE_RESOURCES) \subseteq Listed
    /\ Done("list_resource_templates")
         => Entries(RESOURCE_TEMPLATES) \cup Entries(TEMPLATE_RESOURCE_TEMPLATES)
               \subseteq Listed

(***************************************************************************)
(* Claims about the knowledge graph.                                       *)
(***************************************************************************)
\* the store call of p has returned its response
StoreReturned(p) == gstate[p].pc = "done" /\ gstate[p].result.kind = "return"

\* the call of p has ended with an exception
GraphRaised(p) == gstate[p].pc = "done" /\ gstate[p].result.kind = "raise"

\* this step is query_knowledge running its query and returning
QueryReturns ==
    /\ gstate[Query].pc = "qk_run"
    /\ gstate'[Query].pc = "done"
    /\ gstate'[Query].result.kind = "return"

\* C21: query_knowledge with a context string c returns exactly the
\* relationships the database holds under context c when the query runs, and
\* none stored under another context.
C21_ContextsIsolated ==
    [][(QueryReturns /\ IsNotNone(gstate[Query].args.context))
       => {rel.row : rel \in gstate'[Query].result.value.relations}
             = {r.id : r \in {x \in graph.relations :
                                 x.context = gstate[Query].args.context[1]}}]_vars

\* C22: the response of store_facts has one stored fact per input fact, in
\* input order, total_stored is their number, and context is the supplied
\* context, or "default" when none was supplied.
C22_StoreFactsResponse ==
    \A p \in Stores :
        StoreReturned(p)
        => LET args == gstate[p].args
               response == gstate[p].result.value
           IN /\ Len(response.stored_facts) = Len(args.facts)
              /\ \A i \in 1..Len(args.facts) : response.stored_facts[i] = args.facts[i]
              /\ response.total_stored = Len(args.facts)
              /\ response.context =
                    (IF args.context = None THEN "default" ELSE args.context[1])

\* store_facts returned for two facts and no context
C22_Witness ==
    \E p \in Stores :
        /\ StoreReturned(p)
        /\ gstate[p].args.context = None
        /\ gstate[p].args.facts = <<F_uses, F_knows>>
        /\ gstate[p].result.value.context = "default"

\* the relationship of the i-th fact of the store call of p is among the
\* relations of a query response
HasFactOf(relations, p, i) ==
    \E rel \in relations :
        /\ rel.row = <<p, i>>
        /\ rel.from_entity.name = gstate[p].args.facts[i].subject
        /\ rel.relation_type = gstate[p].args.facts[i].predicate
        /\ rel.to_entity.name = gstate[p].args.facts[i].object
        /\ rel.context = gstate[p].context

\* C23: whatever the interleaving of the store_facts calls, a call that
\* returns returns its own facts, and a query_knowledge that runs after
\* calls have returned returns, for the context they stored under, at least
\* all the facts of all of them.
C23_ConcurrentStoresKept ==
    [][/\ \A p \in Stores :
             (gstate'[p].pc = "done" /\ gstate'[p].result.kind = "return")
             => gstate'[p].result.value.stored_facts = gstate'[p].args.facts
       /\ (QueryReturns /\ IsNotNone(gstate[Query].args.context))
          => \A p \in Stores :
                (StoreReturned(p) /\ gstate[p].context = gstate[Query].args.context[1])
                => \A i \in 1..Len(gstate[p].args.facts) :
                      HasFactOf(gstate'[Query].result.value.relations, p, i)]_vars

\* two store_facts calls into one context have returned, and a query on
\* that context has returned the facts of both
C23_Witness ==
    \E p, q \in Stores :
        /\ p # q
        /\ StoreReturned(p) /\ StoreReturned(q)
        /\ gstate[p].context = gstate[q].context
        /\ gstate[Query].pc = "done"
        /\ gstate[Query].result.kind = "return"
        /\ gstate[Query].args.context = Some(gstate[p].context)
        /\ \A i \in 1..Len(gstate[p].args.facts) :
              HasFactOf(gstate[Query].result.value.relations, p, i)
        /\ \A i \in 1..Len(gstate[q].args.facts) :
              HasFactOf(gstate[Query].result.value.relations, q, i)

\* the committed relationships the store call of p created
Mine(p) == {r \in graph.relations : r.id[1] = p}

\* C30: the database holds relationships of a store_facts call only once the
\* call has returned, and then one for every fact of the call; a call that
\* ended with an exception has committed nothing, and every Context node was
\* committed by a call that returned.
C30_AllOrNothing ==
    /\ \A p \in Stores :
          /\ Mine(p) # {}
                => /\ StoreReturned(p)
                   /\ {r.id[2] : r \in Mine(p)} = 1..Len(gstate[p].args.facts)
          /\ GraphRaised(p) => Mine(p) = {}
    /\ \A c \in graph.contexts :
          \E q \in Stores : StoreReturned(q) /\ gstate[q].context = c

\* a store_facts call has ended with the exception of a fact's statement,
\* next to one that has committed its facts
C30_Witness ==
    \E p, q \in Stores :
        /\ GraphRaised(p)
        /\ gstate[p].kind = "store_facts"
        /\ gstate[p].result.details = <<"run">>
        /\ StoreReturned(q)
        /\ Mine(q) # {}
        /\ Mine(p) = {}

====
